---- MODULE Spec2Model ----
(***************************************************************************)
(* Course synchronisation of EduTube: the authoritative course store       *)
(* behind routes/courses.js, the browser's localStorage mirror (four       *)
(* redundant keys) and the client functions that pull from and push to     *)
(* the store.  Every async client function is a call that suspends at each *)
(* fetch: the request is sent, the server (or the network) answers it, and *)
(* the continuation runs when the answer is delivered.                     *)
(***************************************************************************)
EXTENDS Integers, Sequences, FiniteSets, TLC

\* ------------------------------------------------------------------ bounds
\* ids the store can assign (ObjectIds are never reused)
MaxId == 1
\* client calls that can be in flight at once
MaxTasks == 1
\* calls that can be in flight at once while a poller runs
MaxInFlight == 2
\* setInterval timers that can be created
MaxTimers == 2
\* modules of a course, and lessons of a module
MaxModules == 2
MaxLessons == 2
\* records the store creates while two saves overlap
MaxCreated == 2
\* entries of the backup file at the start
MaxBackup == 2
\* the highest _id the store assigns to a course a script inserts
MaxDocs == 4

\* ------------------------------------------------------------- data model
\* course._id of a record that was never persisted (undefined)
NoId == 0
\* a key that is absent from an object (reads as undefined, dropped by JSON)
Undef == "undefined"
\* localStorage.getItem('token') === null
NoToken == "none"
\* `refreshInterval = null`: no timer id is stored
NoTimer == 0
\* the courses page is not mounted
NoPage == [effect |-> 0, mounted |-> {}]

Keys == {"adminCourses", "edutube_courses", "courses_data", "user_courses"}
STORAGE_KEY == "edutube_courses"

Ids == 1..MaxId
TaskIds == 1..MaxTasks

\* What the admin form can submit: a full record, and one without videoUrl.
Contents == { [title |-> "T1", videoUrl |-> "V"],
              [title |-> "T2", videoUrl |-> Undef] }

Course(id, c) == [_id |-> id, title |-> c.title, videoUrl |-> c.videoUrl]

\* localStorage slot: getItem gives null, or a string that parses to val.
NullSlot == [st |-> "null", val |-> <<>>]
Stored(list) == [st |-> "ok", val |-> list]
\* ... or a string JSON.parse throws on
BadSlot == [st |-> "bad", val |-> <<>>]

NoResult == [kind |-> "none", val |-> <<>>, n |-> 0]
Thrown == [kind |-> "error", val |-> <<>>, n |-> 0]
ListResult(list) == [kind |-> "list", val |-> list, n |-> Len(list)]
CourseResult(c) == [kind |-> "course", val |-> <<c>>, n |-> 0]
BoolResult(b) == [kind |-> "bool", val |-> <<>>, n |-> IF b THEN 1 ELSE 0]
NumResult(k) == [kind |-> "number", val |-> <<>>, n |-> k]
\* setAllCourses(list): what the courses page shows
ViewResult(list) == [kind |-> "view", val |-> list, n |-> Len(list)]
\* setAllCourses(mockCourses)
MockResult == [kind |-> "mock", val |-> <<>>, n |-> 0]

\* `write` keeps the status the push's remote write was answered with
IdleTask == [op |-> "idle", pc |-> "idle", course |-> <<>>, id |-> NoId,
             req |-> <<>>, resp |-> <<>>, saved |-> <<>>, write |-> <<>>,
             result |-> NoResult]

VARIABLES
    remote,   \* the Course collection, in insertion order
    nextId,   \* the next _id the store assigns
    slots,    \* localStorage: key -> slot
    token,    \* localStorage 'token'
    tasks,    \* the client calls: task id -> call state
    intervals,          \* the setInterval timers that are active
    nextTimer,          \* the id the next setInterval returns
    refreshInterval,    \* sync-courses-global.js: `let refreshInterval`
    refreshIntervalId,  \* config/api.ts: window.EduTubeSync.refreshIntervalId
    users,    \* the User collection: the emails that are registered
    backup,   \* the file local-courses-backup.json on the server host
    page      \* the courses page: the effect React will clean up, and the
              \* effects whose isMounted flag is true

\* the state of the two auto-refresh pollers
pollerVars == <<intervals, nextTimer, refreshInterval, refreshIntervalId>>

\* the state outside the course reconciler
otherVars == <<users, backup, page>>

vars == <<remote, nextId, slots, token, tasks, pollerVars, otherVars>>


\* ---------------------------------------------------------- pure helpers
\* localStorage.getItem(key) followed by `if (str) JSON.parse(str)`, else []
Parse(slot) == IF slot.st = "ok" THEN slot.val ELSE <<>>

\* list.findIndex(c => c._id === id): the first match, 0 when there is none
\* (undefined === undefined, so a record without _id matches another one)
FindIndex(list, id) ==
    IF \E i \in 1..Len(list) : list[i]._id = id
    THEN CHOOSE i \in 1..Len(list) :
            /\ list[i]._id = id
            /\ \A j \in 1..(i - 1) : list[j]._id # id
    ELSE 0

\* list.filter(c => c._id !== id)
RECURSIVE FilterOut(_, _)
FilterOut(list, id) ==
    IF list = <<>> THEN <<>>
    ELSE IF Head(list)._id # id
         THEN <<Head(list)>> \o FilterOut(Tail(list), id)
         ELSE FilterOut(Tail(list), id)

\* { ...c, ...course }: the keys course has override those of c
Spread(c, course) ==
    [_id      |-> IF course._id # NoId THEN course._id ELSE c._id,
     title    |-> IF course.title # Undef THEN course.title ELSE c.title,
     videoUrl |-> IF course.videoUrl # Undef THEN course.videoUrl ELSE c.videoUrl]

\* the four setItem calls every full mirror write makes
WriteAll(list) == [k \in Keys |-> Stored(list)]

\* ------------------------------------------------------------------ server
Response(status, body) == [status |-> status, body |-> body]
Ok(resp) == resp.status >= 200 /\ resp.status <= 299

\* `cache` tells whether the request carries the Cache-Control no-store headers
Request(method, id, body, tok) ==
    [method |-> method, id |-> id, body |-> body, token |-> tok,
     cache |-> "default"]

\* headers: { 'Cache-Control': 'no-cache, no-store, must-revalidate', ... }
NoStore(req) == [req EXCEPT !.cache = "no-store"]

\* a middleware that verifies the signature of a token and not its expiry
AuthStatusIgnoresExpiry(tok) == IF tok = NoToken THEN 401 ELSE 200

\* middleware/auth.js: no token, or one jwt.verify rejects, is answered 401
AuthStatus(tok) == IF tok = NoToken \/ tok \notin {"admin", "user"} THEN 401 ELSE 200
\* the route's own `req.user.role !== 'admin'` check
\* a role check that lets every authenticated user through
RoleStatusAllowsAll(tok) == 200

\* req.user.role !== 'admin' is answered 403
RoleStatus(tok) == IF tok # "admin" THEN 403 ELSE 200

RemoteIndex(store, id) == FindIndex(store, id)

\* GET /api/courses
ListCourses(store) == Response(200, store)

\* GET /api/courses/:id ('undefined' is no ObjectId: CastError, 404)
GetCourse(store, id) ==
    IF id # NoId /\ RemoteIndex(store, id) # 0
    THEN Response(200, <<store[RemoteIndex(store, id)]>>)
    ELSE Response(404, <<>>)

\* POST /api/courses: the document the route builds and saves
NewCourse(id, body) ==
    [_id |-> id, title |-> body.title,
     videoUrl |-> IF body.videoUrl = Undef THEN "" ELSE body.videoUrl]

\* PUT /api/courses/:id: findByIdAndUpdate(id, {$set: req.body}, {new: true})
UpdatedCourse(old, body) ==
    [_id |-> old._id,
     title |-> IF body.title # Undef THEN body.title ELSE old.title,
     videoUrl |-> IF body.videoUrl # Undef THEN body.videoUrl ELSE old.videoUrl]

\* One request handled by the server: the store afterwards and the answer.
Handled(store, nid, resp) == [remote |-> store, nextId |-> nid, resp |-> resp]

CreateCourse(store, nid, req) ==
    IF AuthStatus(req.token) # 200
    THEN Handled(store, nid, Response(AuthStatus(req.token), <<>>))
    ELSE IF RoleStatus(req.token) # 200
    THEN Handled(store, nid, Response(403, <<>>))
    ELSE IF req.body[1].title = Undef
    THEN Handled(store, nid, Response(400, <<>>))
    ELSE Handled(Append(store, NewCourse(nid, req.body[1])), nid + 1,
                 Response(200, <<NewCourse(nid, req.body[1])>>))

UpdateCourse(store, nid, req) ==
    IF AuthStatus(req.token) # 200
    THEN Handled(store, nid, Response(AuthStatus(req.token), <<>>))
    ELSE IF RoleStatus(req.token) # 200
    THEN Handled(store, nid, Response(403, <<>>))
    ELSE IF RemoteIndex(store, req.id) = 0
    THEN Handled(store, nid, Response(404, <<>>))
    ELSE LET i == RemoteIndex(store, req.id)
             u == UpdatedCourse(store[i], req.body[1])
         IN Handled([store EXCEPT ![i] = u], nid, Response(200, <<u>>))

DeleteCourse(store, nid, req) ==
    IF AuthStatus(req.token) # 200
    THEN Handled(store, nid, Response(AuthStatus(req.token), <<>>))
    ELSE IF RoleStatus(req.token) # 200
    THEN Handled(store, nid, Response(403, <<>>))
    ELSE IF RemoteIndex(store, req.id) = 0
    THEN Handled(store, nid, Response(404, <<>>))
    ELSE Handled(FilterOut(store, req.id), nid, Response(200, <<>>))

Route(store, nid, req) ==
    CASE req.method = "LIST" -> Handled(store, nid, ListCourses(store))
      [] req.method = "GET" -> Handled(store, nid, GetCourse(store, req.id))
      [] req.method = "POST" -> CreateCourse(store, nid, req)
      [] req.method = "PUT" -> UpdateCourse(store, nid, req)
      [] req.method = "DELETE" -> DeleteCourse(store, nid, req)


\* ------------------------------------------------------- the Local Mirror
\* syncLocalStorage(course): upsert into adminCourses and edutube_courses,
\* each read on its own, then copy adminCourses to the two other keys
\* the upsert without its findIndex test: every record is pushed
UpsertAlwaysPushes(list, course) == Append(list, course)

UpsertReplace(list, course) ==
    IF FindIndex(list, course._id) # 0
    THEN [list EXCEPT ![FindIndex(list, course._id)] = course]
    ELSE Append(list, course)

syncLocalStorage(s, course) ==
    LET adminCourses == UpsertReplace(Parse(s["adminCourses"]), course)
        eduTubeCourses == UpsertReplace(Parse(s["edutube_courses"]), course)
    IN [k \in Keys |-> IF k = "edutube_courses" THEN Stored(eduTubeCourses)
                       ELSE Stored(adminCourses)]

\* courses.map(c => c._id === u._id ? u : c)
MapReplace(list, u) ==
    [i \in 1..Len(list) |-> IF list[i]._id = u._id THEN u ELSE list[i]]

\* courses.map(c => c._id === course._id ? { ...c, ...course } : c)
MapSpread(list, course) ==
    [i \in 1..Len(list) |->
        IF list[i]._id = course._id THEN Spread(list[i], course) ELSE list[i]]

\* a save that writes back only the record it saved
saveCourseListForgetsOthers(list, updatedCourse) == <<updatedCourse>>

\* saveCourse of the mongoSync-backed courseUtils: the list it writes back
saveCourseList(list, updatedCourse) ==
    IF FindIndex(list, updatedCourse._id) = 0
    THEN Append(list, updatedCourse)
    ELSE MapReplace(list, updatedCourse)

\* getCourses() of the storage-only courseUtils: edutube_courses when it is
\* set, else the old key; a JSON.parse that throws is caught and gives []
storageGetCourses(s) ==
    IF s[STORAGE_KEY].st # "null" THEN Parse(s[STORAGE_KEY])
    ELSE Parse(s["adminCourses"])

\* saveCourse(course) of the storage-only courseUtils
storageSaveCourse(s, course) ==
    LET existingCourses == storageGetCourses(s)
    IN IF FindIndex(existingCourses, course._id) = 0
       THEN WriteAll(Append(existingCourses, course))
       ELSE WriteAll(MapSpread(existingCourses, course))

\* deleteCourse(courseId) of the storage-only courseUtils
storageDeleteCourse(s, courseId) ==
    WriteAll(FilterOut(storageGetCourses(s), courseId))

\* ---------------------------------------------------- the pull entry points
\* a pull that skips the overwrite when the listing is empty
fetchMongoDBCoursesSkipsEmpty(s, resp) ==
    IF Ok(resp) /\ Len(resp.body) > 0 THEN WriteAll(resp.body) ELSE s

\* fetchMongoDBCourses: the mirror after the answer, and what it returns

fetchMongoDBCoursesSlots(s, resp) ==
    IF Ok(resp) THEN WriteAll(resp.body) ELSE s

fetchMongoDBCoursesReturn(resp) ==
    IF Ok(resp) THEN resp.body ELSE <<>>

\* forceSync of config/api.ts: fetchMongoDBCourses, then the adminCourses
\* fallback when that returned no course
forceSyncSlots(s, resp) ==
    LET s1 == fetchMongoDBCoursesSlots(s, resp)
        mongoDBCourses == fetchMongoDBCoursesReturn(resp)
    IN IF Len(mongoDBCourses) > 0 THEN s1
       ELSE IF s1["adminCourses"].st = "ok" /\ Len(s1["adminCourses"].val) > 0
       THEN [k \in Keys |-> s1["adminCourses"]]
       ELSE s1

forceSyncReturn(s, resp) ==
    LET s1 == fetchMongoDBCoursesSlots(s, resp)
        mongoDBCourses == fetchMongoDBCoursesReturn(resp)
    IN IF Len(mongoDBCourses) > 0 THEN Len(mongoDBCourses)
       ELSE IF s1["adminCourses"].st = "bad" THEN -1
       ELSE IF s1["adminCourses"].st = "ok" /\ Len(s1["adminCourses"].val) > 0
       THEN Len(s1["adminCourses"].val)
       ELSE 0

\* getCourses(true) of the mongoSync-backed courseUtils
getCoursesSlots(s, resp) ==
    IF Ok(resp) /\ Len(resp.body) > 0 THEN WriteAll(resp.body) ELSE s

getCoursesReturn(s, resp) ==
    IF Ok(resp) /\ Len(resp.body) > 0 THEN resp.body ELSE Parse(s[STORAGE_KEY])

\* loadCourses of the courses page
loadCoursesSlots(s, resp) ==
    IF Ok(resp) /\ Len(resp.body) > 0
    THEN [s EXCEPT !["edutube_courses"] = Stored(resp.body),
                   !["adminCourses"] = Stored(resp.body)]
    ELSE s

\* course.modules: absent, or a list of modules; module.lessons likewise
NoModules == [has |-> FALSE, list |-> <<>>]
ModulesOf(course) ==
    IF "modules" \in DOMAIN course THEN course.modules ELSE NoModules

\* modules.reduce((total, module) => total + (module.lessons?.length || 0), 0)
RECURSIVE reduceLessons(_)
reduceLessons(modules) ==
    IF modules = <<>> THEN 0
    ELSE (IF Head(modules).has THEN Len(Head(modules).lessons) ELSE 0)
            + reduceLessons(Tail(modules))

\* the projection of a record of the remote listing
courseFromAPI(course) ==
    [id |-> course._id, title |-> course.title,
     lessonsCount |-> IF ModulesOf(course).has
                      THEN reduceLessons(ModulesOf(course).list) ELSE 0]

\* the projection of a record read from localStorage
courseFromStorage(course) ==
    [id |-> course._id, title |-> course.title, lessonsCount |-> 12]

\* the keys loadCourses tries, in its order
possibleKeys == <<"edutube_courses", "adminCourses", "courses_data", "user_courses">>

\* what loadCourses shows: the projected listing when it has courses, else
\* the projection of the first key that is set, else (or when that key does
\* not parse) the mock courses
loadCoursesView(s, resp) ==
    IF Ok(resp) /\ Len(resp.body) > 0
    THEN ViewResult([i \in 1..Len(resp.body) |-> courseFromAPI(resp.body[i])])
    ELSE IF \A i \in 1..Len(possibleKeys) : s[possibleKeys[i]].st = "null"
    THEN MockResult
    ELSE LET first == CHOOSE i \in 1..Len(possibleKeys) :
                        /\ s[possibleKeys[i]].st # "null"
                        /\ \A j \in 1..(i - 1) : s[possibleKeys[j]].st = "null"
             storedCourses == s[possibleKeys[first]]
         IN IF storedCourses.st = "bad" THEN MockResult
            ELSE ViewResult([i \in 1..Len(storedCourses.val) |->
                                courseFromStorage(storedCourses.val[i])])


\* ------------------------------------------------------------ call plumbing
\* what fetch answers when it rejects (0) or the server fails (500)
FailStatuses == {0, 500}

\* a new call takes the first free task
Free(t) ==
    /\ tasks[t].op = "idle"
    /\ \A u \in 1..(t - 1) : tasks[u].op # "idle"

Answered(t, op, pc) ==
    /\ tasks[t].op = op
    /\ tasks[t].pc = pc
    /\ tasks[t].resp # <<>>

Resp(t) == tasks[t].resp[1]

\* the call starts and suspends at its first fetch
Call(t, op, pc, course, id, req) ==
    tasks' = [tasks EXCEPT ![t] =
                [op |-> op, pc |-> pc, course |-> course, id |-> id,
                 req |-> <<req>>, resp |-> <<>>, saved |-> <<>>,
                 write |-> <<>>, result |-> NoResult]]

\* the call ends before any fetch
CallEnds(t, op, course, id, result) ==
    tasks' = [tasks EXCEPT ![t] =
                [op |-> op, pc |-> "done", course |-> course, id |-> id,
                 req |-> <<>>, resp |-> <<>>, saved |-> <<>>,
                 write |-> <<>>, result |-> result]]

\* the continuation suspends at its next fetch
Await(t, pc, req) ==
    tasks' = [tasks EXCEPT ![t].pc = pc, ![t].req = <<req>>, ![t].resp = <<>>]

\* the call returns (or throws)
Finish(t, result) ==
    tasks' = [tasks EXCEPT ![t].pc = "done", ![t].req = <<>>,
                           ![t].resp = <<>>, ![t].result = result]

\* the listing request of fetchMongoDBCourses and of the courses page
ListRequest == NoStore(Request("LIST", NoId, <<>>, NoToken))

\* ---------------------------------------------------------------- network
\* the server handles a request that is in flight
Serve(t) ==
    /\ tasks[t].req # <<>>
    /\ tasks[t].resp = <<>>
    /\ tasks[t].req[1].method = "POST" => nextId <= MaxId
    /\ LET h == Route(remote, nextId, tasks[t].req[1])
       IN /\ remote' = h.remote
          /\ nextId' = h.nextId
          /\ tasks' = [tasks EXCEPT ![t].resp = <<h.resp>>]
    /\ UNCHANGED <<slots, token>>
    /\ UNCHANGED <<pollerVars, otherVars>>

\* the request fails: fetch rejects, or the server answers 500
Fail(t) ==
    /\ tasks[t].req # <<>>
    /\ tasks[t].resp = <<>>
    /\ \E st \in FailStatuses :
          tasks' = [tasks EXCEPT ![t].resp = <<Response(st, <<>>)>>]
    /\ UNCHANGED <<remote, nextId, slots, token>>
    /\ UNCHANGED <<pollerVars, otherVars>>

\* the caller takes the result of a finished call
Return(t) ==
    /\ tasks[t].pc = "done"
    /\ tasks' = [tasks EXCEPT ![t] = IdleTask]
    /\ UNCHANGED <<remote, nextId, slots, token>>
    /\ UNCHANGED <<pollerVars, otherVars>>

\* ------------------------------------------------------------------ pulls
fetchMongoDBCourses(t) ==
    /\ Free(t)
    /\ Call(t, "fetchMongoDBCourses", "list", <<>>, NoId, ListRequest)
    /\ UNCHANGED <<remote, nextId, slots, token>>
    /\ UNCHANGED <<pollerVars, otherVars>>

fetchMongoDBCoursesDone(t) ==
    /\ Answered(t, "fetchMongoDBCourses", "list")
    /\ slots' = fetchMongoDBCoursesSlots(slots, Resp(t))
    /\ Finish(t, ListResult(fetchMongoDBCoursesReturn(Resp(t))))
    /\ UNCHANGED <<remote, nextId, token>>
    /\ UNCHANGED <<pollerVars, otherVars>>

forceSync(t) ==
    /\ Free(t)
    /\ Call(t, "forceSync", "list", <<>>, NoId, ListRequest)
    /\ UNCHANGED <<remote, nextId, slots, token>>
    /\ UNCHANGED <<pollerVars, otherVars>>

forceSyncDone(t) ==
    /\ Answered(t, "forceSync", "list")
    /\ slots' = forceSyncSlots(slots, Resp(t))
    /\ Finish(t, NumResult(forceSyncReturn(slots, Resp(t))))
    /\ UNCHANGED <<remote, nextId, token>>
    /\ UNCHANGED <<pollerVars, otherVars>>

getCourses(t) ==
    /\ Free(t)
    /\ Call(t, "getCourses", "list", <<>>, NoId, Request("LIST", NoId, <<>>, token))
    /\ UNCHANGED <<remote, nextId, slots, token>>
    /\ UNCHANGED <<pollerVars, otherVars>>

getCoursesDone(t) ==
    /\ Answered(t, "getCourses", "list")
    /\ slots' = getCoursesSlots(slots, Resp(t))
    /\ Finish(t, ListResult(getCoursesReturn(slots, Resp(t))))
    /\ UNCHANGED <<remote, nextId, token>>
    /\ UNCHANGED <<pollerVars, otherVars>>

loadCourses(t) ==
    /\ Free(t)
    /\ Call(t, "loadCourses", "list", <<>>, NoId, ListRequest)
    /\ UNCHANGED <<remote, nextId, slots, token>>
    /\ UNCHANGED <<pollerVars, otherVars>>

loadCoursesDone(t) ==
    /\ Answered(t, "loadCourses", "list")
    /\ slots' = loadCoursesSlots(slots, Resp(t))
    /\ Finish(t, loadCoursesView(slots, Resp(t)))
    /\ UNCHANGED <<remote, nextId, token>>
    /\ UNCHANGED <<pollerVars, otherVars>>


\* ----------------------------------------------------------------- pushes
\* the ids a client can name: those the store has assigned so far
KnownIds == 1..(nextId - 1)

\* a save that creates whatever the record carries
SaveRequestAlwaysPosts(course, tok) ==
    Request("POST", course._id, <<course>>, tok)

\* `course._id ? 'PUT' : 'POST'` with the url and the body that go with it
SaveRequest(course, tok) ==
    Request(IF course._id # NoId THEN "PUT" ELSE "POST", course._id, <<course>>, tok)

\* syncCourse(course): the local upsert, then the first fetchMongoDBCourses
syncCourse(t) ==
    /\ Free(t)
    /\ \E id \in {NoId} \cup KnownIds, c \in Contents :
          /\ slots' = syncLocalStorage(slots, Course(id, c))
          /\ Call(t, "syncCourse", "fetch1", <<Course(id, c)>>, id, ListRequest)
    /\ UNCHANGED <<remote, nextId, token>>
    /\ UNCHANGED <<pollerVars, otherVars>>

\* ... its answer is mirrored; checkCourseExistsInMongoDB(course._id) is sent
syncCourseFetched(t) ==
    /\ Answered(t, "syncCourse", "fetch1")
    /\ slots' = fetchMongoDBCoursesSlots(slots, Resp(t))
    /\ Await(t, "check", Request("GET", tasks[t].id, <<>>, NoToken))
    /\ UNCHANGED <<remote, nextId, token>>
    /\ UNCHANGED <<pollerVars, otherVars>>

\* checkCourseExistsInMongoDB: response.ok and a course with an _id
doesExistInMongoDB(resp) ==
    Ok(resp) /\ resp.body # <<>> /\ resp.body[1]._id # NoId

\* ... the course is saved again when the check did not find it (saveCourseToDB
\* gives up without a token); then the second fetchMongoDBCourses is sent
syncCourseChecked(t) ==
    /\ Answered(t, "syncCourse", "check")
    /\ IF ~doesExistInMongoDB(Resp(t)) /\ token # NoToken
       THEN Await(t, "save", SaveRequest(tasks[t].course[1], token))
       ELSE Await(t, "fetch2", ListRequest)
    /\ UNCHANGED <<remote, nextId, slots, token>>
    /\ UNCHANGED <<pollerVars, otherVars>>

\* ... saveCourseToDB's answer: true or false, which syncCourse ignores
syncCourseSaved(t) ==
    /\ Answered(t, "syncCourse", "save")
    /\ tasks' = [tasks EXCEPT ![t].pc = "fetch2", ![t].req = <<ListRequest>>,
                              ![t].resp = <<>>,
                              ![t].write = <<Resp(t).status>>,
                              ![t].saved = IF Ok(Resp(t)) THEN Resp(t).body ELSE <<>>]
    /\ UNCHANGED <<remote, nextId, slots, token>>
    /\ UNCHANGED <<pollerVars, otherVars>>

\* ... the second fetch is mirrored and syncCourse returns true
syncCourseDone(t) ==
    /\ Answered(t, "syncCourse", "fetch2")
    /\ slots' = fetchMongoDBCoursesSlots(slots, Resp(t))
    /\ Finish(t, BoolResult(TRUE))
    /\ UNCHANGED <<remote, nextId, token>>
    /\ UNCHANGED <<pollerVars, otherVars>>

\* saveCourse(course): saveToMongoDB throws without a token, else sends
saveCourse(t) ==
    /\ Free(t)
    /\ \E id \in {NoId} \cup KnownIds, c \in Contents :
          IF token = NoToken
          THEN CallEnds(t, "saveCourse", <<Course(id, c)>>, id, Thrown)
          ELSE Call(t, "saveCourse", "save", <<Course(id, c)>>, id,
                    SaveRequest(Course(id, c), token))
    /\ UNCHANGED <<remote, nextId, slots, token>>
    /\ UNCHANGED <<pollerVars, otherVars>>

\* the record saved locally without the id the store answered
updatedCourseKeepsOwnId(course, savedCourse) == course

\* { ...course, _id: savedCourse._id }
updatedCourse(course, savedCourse) == [course EXCEPT !._id = savedCourse._id]

\* a save that keeps the submitted record locally whatever the store answered
saveCourseSavedStoresAnyway(t) ==
    /\ Answered(t, "saveCourse", "save")
    /\ slots' = WriteAll(saveCourseList(Parse(slots[STORAGE_KEY]), tasks[t].course[1]))
    /\ tasks' = [tasks EXCEPT ![t].pc = "done", ![t].req = <<>>,
                              ![t].resp = <<>>,
                              ![t].write = <<Resp(t).status>>,
                              ![t].result = Thrown]
    /\ UNCHANGED <<remote, nextId, token>>
    /\ UNCHANGED <<pollerVars, otherVars>>

\* ... the answer: throw, or upsert into edutube_courses' list, write the four
\* keys and send verifyMongoDBSync's listing
saveCourseSaved(t) ==
    /\ Answered(t, "saveCourse", "save")
    /\ IF ~Ok(Resp(t)) \/ Resp(t).body = <<>> \/ Resp(t).body[1]._id = NoId
       THEN /\ tasks' = [tasks EXCEPT ![t].pc = "done", ![t].req = <<>>,
                                      ![t].resp = <<>>,
                                      ![t].write = <<Resp(t).status>>,
                                      ![t].result = Thrown]
            /\ UNCHANGED slots
       ELSE /\ slots' = WriteAll(saveCourseList(Parse(slots[STORAGE_KEY]),
                           updatedCourse(tasks[t].course[1], Resp(t).body[1])))
            /\ tasks' = [tasks EXCEPT ![t].pc = "verify",
                            ![t].req = <<Request("LIST", NoId, <<>>, token)>>,
                            ![t].resp = <<>>, ![t].saved = Resp(t).body,
                            ![t].write = <<Resp(t).status>>]
    /\ UNCHANGED <<remote, nextId, token>>
    /\ UNCHANGED <<pollerVars, otherVars>>

\* ... verifyMongoDBSync swallows its errors; saveCourse returns updatedCourse
saveCourseDone(t) ==
    /\ Answered(t, "saveCourse", "verify")
    /\ Finish(t, CourseResult(updatedCourse(tasks[t].course[1], tasks[t].saved[1])))
    /\ UNCHANGED <<remote, nextId, slots, token>>
    /\ UNCHANGED <<pollerVars, otherVars>>

\* deleteCourse(courseId): deleteFromMongoDB throws without a token
deleteCourse(t) ==
    /\ Free(t)
    /\ \E id \in KnownIds :
          IF token = NoToken
          THEN CallEnds(t, "deleteCourse", <<>>, id, Thrown)
          ELSE Call(t, "deleteCourse", "delete", <<>>, id,
                    Request("DELETE", id, <<>>, token))
    /\ UNCHANGED <<remote, nextId, slots, token>>
    /\ UNCHANGED <<pollerVars, otherVars>>

\* the mirror after deleteCourse's remote delete succeeded
deleteCourseSlots(s, courseId) ==
    IF s[STORAGE_KEY].st = "ok"
    THEN WriteAll(FilterOut(s[STORAGE_KEY].val, courseId))
    ELSE s

\* ... the answer: any non-ok status throws before the mirror is touched
deleteCourseDone(t) ==
    /\ Answered(t, "deleteCourse", "delete")
    /\ IF ~Ok(Resp(t))
       THEN /\ Finish(t, Thrown)
            /\ UNCHANGED slots
       ELSE /\ slots' = deleteCourseSlots(slots, tasks[t].id)
            /\ Finish(t, BoolResult(TRUE))
    /\ UNCHANGED <<remote, nextId, token>>
    /\ UNCHANGED <<pollerVars, otherVars>>

\* the storage-only courseUtils: synchronous, no remote call
courseUtils_saveCourse ==
    /\ \E id \in {NoId} \cup KnownIds, c \in Contents :
          slots' = storageSaveCourse(slots, Course(id, c))
    /\ UNCHANGED <<remote, nextId, token, tasks>>
    /\ UNCHANGED <<pollerVars, otherVars>>

courseUtils_deleteCourse ==
    /\ \E id \in KnownIds : slots' = storageDeleteCourse(slots, id)
    /\ UNCHANGED <<remote, nextId, token, tasks>>
    /\ UNCHANGED <<pollerVars, otherVars>>

\* ------------------------------------------------------------ environment
\* AuthContext login stores the token the server issued; logout removes it
login ==
    /\ token = NoToken
    /\ token' = "admin"
    /\ UNCHANGED <<remote, nextId, slots, tasks>>
    /\ UNCHANGED <<pollerVars, otherVars>>

logout ==
    /\ token # NoToken
    /\ token' = NoToken
    /\ UNCHANGED <<remote, nextId, slots, tasks>>
    /\ UNCHANGED <<pollerVars, otherVars>>

\* the stored token outlives its validity (it is signed with expiresIn '7d');
\* jwt.verify rejects it from then on
tokenExpires ==
    /\ token = "admin"
    /\ token' = "expired"
    /\ UNCHANGED <<remote, nextId, slots, tasks>>
    /\ UNCHANGED <<pollerVars, otherVars>>

\* another admin session sends one write to the store through the same routes
OtherAdminSends(m) ==
    /\ \E id \in KnownIds \cup {NoId}, c \in Contents :
          /\ (m = "POST") = (id = NoId)
          /\ m = "POST" => nextId <= MaxId
          /\ LET h == Route(remote, nextId, Request(m, id, <<Course(id, c)>>, "admin"))
             IN /\ Ok(h.resp)
                /\ remote' = h.remote
                /\ nextId' = h.nextId
    /\ UNCHANGED <<slots, token, tasks>>
    /\ UNCHANGED <<pollerVars, otherVars>>

OtherAdmin == \E m \in {"POST", "PUT", "DELETE"} : OtherAdminSends(m)

\* ------------------------------------------------------ the specification
Init ==
    /\ remote = <<>>
    /\ nextId = 1
    /\ slots = [k \in Keys |-> NullSlot]
    /\ token = NoToken
    /\ tasks = [t \in TaskIds |-> IdleTask]
    /\ intervals = {}
    /\ nextTimer = 1
    /\ refreshInterval = NoTimer
    /\ refreshIntervalId = NoTimer
    /\ users = {}
    /\ backup = NullSlot
    /\ page = NoPage

Next ==
    \/ \E t \in TaskIds : Serve(t)
    \/ \E t \in TaskIds : Fail(t)
    \/ \E t \in TaskIds : Return(t)
    \/ \E t \in TaskIds : fetchMongoDBCourses(t)
    \/ \E t \in TaskIds : fetchMongoDBCoursesDone(t)
    \/ \E t \in TaskIds : forceSync(t)
    \/ \E t \in TaskIds : forceSyncDone(t)
    \/ \E t \in TaskIds : getCourses(t)
    \/ \E t \in TaskIds : getCoursesDone(t)
    \/ \E t \in TaskIds : loadCourses(t)
    \/ \E t \in TaskIds : loadCoursesDone(t)
    \/ \E t \in TaskIds : syncCourse(t)
    \/ \E t \in TaskIds : syncCourseFetched(t)
    \/ \E t \in TaskIds : syncCourseChecked(t)
    \/ \E t \in TaskIds : syncCourseSaved(t)
    \/ \E t \in TaskIds : syncCourseDone(t)
    \/ \E t \in TaskIds : saveCourse(t)
    \/ \E t \in TaskIds : saveCourseSaved(t)
    \/ \E t \in TaskIds : saveCourseDone(t)
    \/ \E t \in TaskIds : deleteCourse(t)
    \/ \E t \in TaskIds : deleteCourseDone(t)
    \/ courseUtils_saveCourse
    \/ courseUtils_deleteCourse
    \/ login
    \/ logout
    \/ tokenExpires
    \/ OtherAdmin

Spec == Init /\ [][Next]_vars


\* ------------------------------------- auto-refresh, sync-courses-global.js
\* clearInterval(id): a timer id that is not active is ignored
clearInterval(set, id) == {i \in set : i.id # id}

\* setInterval(callback, intervalMs) of the poller `owner`
setInterval(set, id, owner) == set \cup {[id |-> id, owner |-> owner]}

\* startAutoRefresh(intervalMs): stops the timer it stored, sends the initial
\* fetchMongoDBCourses(true) without awaiting it, and stores the new timer
startAutoRefresh(t) ==
    /\ Free(t)
    /\ nextTimer <= MaxTimers
    /\ intervals' = setInterval(IF refreshInterval # NoTimer
                                THEN clearInterval(intervals, refreshInterval)
                                ELSE intervals,
                                nextTimer, "global")
    /\ refreshInterval' = nextTimer
    /\ nextTimer' = nextTimer + 1
    /\ Call(t, "fetchMongoDBCourses", "list", <<>>, NoId, ListRequest)
    /\ UNCHANGED <<remote, nextId, slots, token, refreshIntervalId>>
    /\ UNCHANGED otherVars

\* stopAutoRefresh(): clears and forgets the stored timer, if there is one
stopAutoRefresh ==
    /\ IF refreshInterval # NoTimer
       THEN /\ intervals' = clearInterval(intervals, refreshInterval)
            /\ refreshInterval' = NoTimer
       ELSE UNCHANGED <<intervals, refreshInterval>>
    /\ UNCHANGED <<remote, nextId, slots, token, tasks, nextTimer, refreshIntervalId>>
    /\ UNCHANGED otherVars

\* the interval fires: the callback sends fetchMongoDBCourses(true), whether
\* or not an earlier callback is still waiting for its answer
autoRefreshTick(t) ==
    /\ Free(t)
    /\ \E i \in intervals :
          /\ i.owner = "global"
          /\ Call(t, "autoRefreshTick", "list", <<>>, i.id, ListRequest)
    /\ UNCHANGED <<remote, nextId, slots, token>>
    /\ UNCHANGED <<pollerVars, otherVars>>

\* ... the answer is mirrored and the callback ends; nobody takes its result
autoRefreshTickDone(t) ==
    /\ Answered(t, "autoRefreshTick", "list")
    /\ slots' = fetchMongoDBCoursesSlots(slots, Resp(t))
    /\ tasks' = [tasks EXCEPT ![t] = IdleTask]
    /\ UNCHANGED <<remote, nextId, token>>
    /\ UNCHANGED <<pollerVars, otherVars>>

\* The store holds two courses, the browser has never run the application.
InFlightIds == 1..MaxInFlight

TwoCourses == << NewCourse(1, [title |-> "T1", videoUrl |-> "V"]),
                 NewCourse(2, [title |-> "T2", videoUrl |-> Undef]) >>

PollerInit ==
    /\ remote = TwoCourses
    /\ nextId = 3
    /\ slots = [k \in Keys |-> NullSlot]
    /\ token = NoToken
    /\ tasks = [t \in InFlightIds |-> IdleTask]
    /\ intervals = {}
    /\ nextTimer = 1
    /\ refreshInterval = NoTimer
    /\ refreshIntervalId = NoTimer
    /\ users = {}
    /\ backup = NullSlot
    /\ page = NoPage

PollerNext ==
    \/ \E t \in InFlightIds : startAutoRefresh(t)
    \/ stopAutoRefresh
    \/ \E t \in InFlightIds : autoRefreshTick(t)
    \/ \E t \in InFlightIds : autoRefreshTickDone(t)
    \/ \E t \in InFlightIds : fetchMongoDBCoursesDone(t)
    \/ \E t \in InFlightIds : Return(t)
    \/ \E t \in InFlightIds : Serve(t)
    \/ \E t \in InFlightIds : Fail(t)
    \/ OtherAdminSends("DELETE")

\* The timer keeps firing while it is active, every request is answered (by
\* the server or by a failure) and every answer is delivered.
PollerFairness ==
    \A t \in InFlightIds :
        /\ WF_vars(autoRefreshTick(t))
        /\ WF_vars(autoRefreshTickDone(t))
        /\ WF_vars(fetchMongoDBCoursesDone(t))
        /\ WF_vars(Return(t))
        /\ WF_vars(Serve(t) \/ Fail(t))

PollerSpec == PollerInit /\ [][PollerNext]_vars /\ PollerFairness


\* ---------------------------------------------- auto-refresh, config/api.ts
\* a timer of this poller is active, so its callback can fire
ApiTimerActive == \E i \in intervals : i.owner = "api"

\* startAutoRefresh(intervalMs): sends forceSync() without awaiting it, sets
\* the interval and stores its id; a timer stored before is not cleared
api_startAutoRefresh(t) ==
    /\ Free(t)
    /\ nextTimer <= MaxTimers
    /\ Call(t, "forceSync", "list", <<>>, NoId, ListRequest)
    /\ intervals' = setInterval(intervals, nextTimer, "api")
    /\ refreshIntervalId' = nextTimer
    /\ nextTimer' = nextTimer + 1
    /\ UNCHANGED <<remote, nextId, slots, token, refreshInterval>>
    /\ UNCHANGED otherVars

\* stopAutoRefresh(): clears the timer whose id is stored; the id stays stored
api_stopAutoRefresh ==
    /\ IF refreshIntervalId # NoTimer
       THEN intervals' = clearInterval(intervals, refreshIntervalId)
       ELSE UNCHANGED intervals
    /\ UNCHANGED <<remote, nextId, slots, token, tasks,
                   nextTimer, refreshInterval, refreshIntervalId>>
    /\ UNCHANGED otherVars

\* the interval fires: the callback sends fetchMongoDBCourses(true)
api_autoRefreshTick(t) ==
    /\ Free(t)
    /\ ApiTimerActive
    /\ \E i \in intervals :
          /\ i.owner = "api"
          /\ Call(t, "api_autoRefreshTick", "refresh", <<>>, i.id, ListRequest)
    /\ UNCHANGED <<remote, nextId, slots, token>>
    /\ UNCHANGED <<pollerVars, otherVars>>

\* ... its answer is mirrored; fetchMongoDBCourses(false) is sent for the count
api_autoRefreshRefreshed(t) ==
    /\ Answered(t, "api_autoRefreshTick", "refresh")
    /\ slots' = fetchMongoDBCoursesSlots(slots, Resp(t))
    /\ Await(t, "count", ListRequest)
    /\ UNCHANGED <<remote, nextId, token>>
    /\ UNCHANGED <<pollerVars, otherVars>>

\* ... that answer is mirrored too; mongoCount is the length of what it
\* returned, localCount the length of adminCourses, whose JSON.parse is not
\* guarded: when it throws the callback rejects; forceSync() on a mismatch
api_autoRefreshCounted(t) ==
    /\ Answered(t, "api_autoRefreshTick", "count")
    /\ slots' = fetchMongoDBCoursesSlots(slots, Resp(t))
    /\ LET mongoCount == Len(fetchMongoDBCoursesReturn(Resp(t)))
           localCount == Len(Parse(slots'["adminCourses"]))
       IN IF slots'["adminCourses"].st = "bad"
          THEN Finish(t, Thrown)
          ELSE IF mongoCount # localCount
          THEN Await(t, "force", ListRequest)
          ELSE tasks' = [tasks EXCEPT ![t] = IdleTask]
    /\ UNCHANGED <<remote, nextId, token>>
    /\ UNCHANGED <<pollerVars, otherVars>>

\* ... forceSync's answer; the callback ends
api_autoRefreshForced(t) ==
    /\ Answered(t, "api_autoRefreshTick", "force")
    /\ slots' = forceSyncSlots(slots, Resp(t))
    /\ tasks' = [tasks EXCEPT ![t] = IdleTask]
    /\ UNCHANGED <<remote, nextId, token>>
    /\ UNCHANGED <<pollerVars, otherVars>>

ApiPollerNext ==
    \/ \E t \in InFlightIds : api_startAutoRefresh(t)
    \/ api_stopAutoRefresh
    \/ \E t \in InFlightIds : api_autoRefreshTick(t)
    \/ \E t \in InFlightIds : api_autoRefreshRefreshed(t)
    \/ \E t \in InFlightIds : api_autoRefreshCounted(t)
    \/ \E t \in InFlightIds : api_autoRefreshForced(t)
    \/ \E t \in InFlightIds : forceSyncDone(t)
    \/ \E t \in InFlightIds : Return(t)
    \/ \E t \in InFlightIds : Serve(t)
    \/ \E t \in InFlightIds : Fail(t)
    \/ OtherAdminSends("DELETE")

ApiPollerSpec == PollerInit /\ [][ApiPollerNext]_vars


\* ------------------------------------------------- the admin dashboard
\* forceSync of sync-courses-global.js (window.EduTubeSync.forceSync):
\* fetchMongoDBCourses(true), and the number of courses it returned
syncGlobal_forceSyncDone(t) ==
    /\ Answered(t, "syncGlobal_forceSync", "list")
    /\ slots' = fetchMongoDBCoursesSlots(slots, Resp(t))
    /\ Finish(t, NumResult(Len(fetchMongoDBCoursesReturn(Resp(t)))))
    /\ UNCHANGED <<remote, nextId, token>>
    /\ UNCHANGED <<pollerVars, otherVars>>

\* handleDeleteCourse(courseId): the storage deleteCourse removes the record
\* from the four keys, window.EduTubeSync.forceSync() is sent and not awaited
\* (call t), and with a token the DELETE request is sent (call u); without
\* one the handler is finished.  The component's own `courses` list is
\* display state and is not kept here.
handleDeleteCourse(t, u) ==
    /\ Free(t)
    /\ u # t /\ tasks[u].op = "idle"
    /\ \A w \in DOMAIN tasks : (w # t /\ tasks[w].op = "idle") => u <= w
    /\ \E courseId \in KnownIds :
          /\ slots' = storageDeleteCourse(slots, courseId)
          /\ tasks' = [tasks EXCEPT
                ![t] = [IdleTask EXCEPT !.op = "syncGlobal_forceSync",
                                        !.pc = "list",
                                        !.req = <<ListRequest>>],
                ![u] = IF token = NoToken THEN IdleTask
                       ELSE [IdleTask EXCEPT
                               !.op = "handleDeleteCourse", !.pc = "delete",
                               !.id = courseId,
                               !.req = <<Request("DELETE", courseId, <<>>, token)>>]]
    /\ UNCHANGED <<remote, nextId, token>>
    /\ UNCHANGED <<pollerVars, otherVars>>

\* ... the DELETE's answer: a failure is logged, nothing is restored and
\* nothing is reported
handleDeleteCourseDone(u) ==
    /\ Answered(u, "handleDeleteCourse", "delete")
    /\ tasks' = [tasks EXCEPT ![u] = IdleTask]
    /\ UNCHANGED <<remote, nextId, slots, token>>
    /\ UNCHANGED <<pollerVars, otherVars>>

\* The dashboard is open on a store and a mirror that hold the same course.
OneCourse == << NewCourse(1, [title |-> "T1", videoUrl |-> "V"]) >>

DashboardInit ==
    /\ remote = OneCourse
    /\ nextId = 2
    /\ slots = WriteAll(OneCourse)
    /\ token = NoToken
    /\ tasks = [t \in InFlightIds |-> IdleTask]
    /\ intervals = {}
    /\ nextTimer = 1
    /\ refreshInterval = NoTimer
    /\ refreshIntervalId = NoTimer
    /\ users = {}
    /\ backup = NullSlot
    /\ page = NoPage

DashboardNext ==
    \/ \E t, u \in InFlightIds : handleDeleteCourse(t, u)
    \/ \E u \in InFlightIds : handleDeleteCourseDone(u)
    \/ \E t \in InFlightIds : syncGlobal_forceSyncDone(t)
    \/ \E t \in InFlightIds : Return(t)
    \/ \E t \in InFlightIds : Serve(t)
    \/ \E t \in InFlightIds : Fail(t)
    \/ login
    \/ logout
    \/ OtherAdmin

DashboardSpec == DashboardInit /\ [][DashboardNext]_vars


\* --------------------------------------------------- a full localStorage
\* localStorage.setItem throws QuotaExceededError when the origin's storage
\* is full.  A mirror write is a sequence of setItem calls <<key, list>>;
\* when call n + 1 throws, the first n have been made.
setItems(s, writes, n) ==
    [k \in Keys |->
        IF \E i \in 1..n : writes[i][1] = k
        THEN Stored(writes[CHOOSE i \in 1..n : writes[i][1] = k][2])
        ELSE s[k]]

\* the setItem calls of fetchMongoDBCourses, in the order it makes them
fetchMongoDBCoursesWrites(courses) ==
    << <<"adminCourses", courses>>, <<"edutube_courses", courses>>,
       <<"courses_data", courses>>, <<"user_courses", courses>> >>

\* ... of syncLocalStorage
syncLocalStorageWrites(s, course) ==
    LET adminCourses == UpsertReplace(Parse(s["adminCourses"]), course)
        eduTubeCourses == UpsertReplace(Parse(s["edutube_courses"]), course)
    IN << <<"adminCourses", adminCourses>>, <<"edutube_courses", eduTubeCourses>>,
          <<"courses_data", adminCourses>>, <<"user_courses", adminCourses>> >>

\* ... of saveCourse of the mongoSync-backed courseUtils
saveCourseWrites(courses) ==
    << <<STORAGE_KEY, courses>>, <<"adminCourses", courses>>,
       <<"courses_data", courses>>, <<"user_courses", courses>> >>

\* how many setItem calls of a four-key write succeed before one throws
QuotaPoints == 0..3

\* fetchMongoDBCourses when a setItem throws: its catch logs and returns []
fetchMongoDBCoursesQuota(t) ==
    /\ Answered(t, "fetchMongoDBCourses", "list")
    /\ Ok(Resp(t))
    /\ \E n \in QuotaPoints :
          slots' = setItems(slots, fetchMongoDBCoursesWrites(Resp(t).body), n)
    /\ Finish(t, ListResult(<<>>))
    /\ UNCHANGED <<remote, nextId, token>>
    /\ UNCHANGED <<pollerVars, otherVars>>

\* syncCourse when a setItem of syncLocalStorage throws: the call is outside
\* syncCourse's try block, so syncCourse rejects before any fetch
syncCourseQuota(t) ==
    /\ Free(t)
    /\ \E id \in {NoId} \cup KnownIds, c \in Contents, n \in QuotaPoints :
          /\ slots' = setItems(slots, syncLocalStorageWrites(slots, Course(id, c)), n)
          /\ CallEnds(t, "syncCourse", <<Course(id, c)>>, id, Thrown)
    /\ UNCHANGED <<remote, nextId, token>>
    /\ UNCHANGED <<pollerVars, otherVars>>

\* saveCourse when a setItem throws after the remote save succeeded: the outer
\* catch rethrows
saveCourseSavedQuota(t) ==
    /\ Answered(t, "saveCourse", "save")
    /\ Ok(Resp(t)) /\ Resp(t).body # <<>> /\ Resp(t).body[1]._id # NoId
    /\ \E n \in QuotaPoints :
          slots' = setItems(slots,
                     saveCourseWrites(saveCourseList(Parse(slots[STORAGE_KEY]),
                        updatedCourse(tasks[t].course[1], Resp(t).body[1]))), n)
    /\ tasks' = [tasks EXCEPT ![t].pc = "done", ![t].req = <<>>,
                              ![t].resp = <<>>,
                              ![t].write = <<Resp(t).status>>,
                              ![t].result = Thrown]
    /\ UNCHANGED <<remote, nextId, token>>
    /\ UNCHANGED <<pollerVars, otherVars>>

\* An admin is logged in; store and mirror hold the same course.
QuotaInit ==
    /\ remote = OneCourse
    /\ nextId = 2
    /\ slots = WriteAll(OneCourse)
    /\ token = "admin"
    /\ tasks = [t \in TaskIds |-> IdleTask]
    /\ intervals = {}
    /\ nextTimer = 1
    /\ refreshInterval = NoTimer
    /\ refreshIntervalId = NoTimer
    /\ users = {}
    /\ backup = NullSlot
    /\ page = NoPage

QuotaNext ==
    \/ \E t \in TaskIds : fetchMongoDBCourses(t)
    \/ \E t \in TaskIds : fetchMongoDBCoursesDone(t)
    \/ \E t \in TaskIds : fetchMongoDBCoursesQuota(t)
    \/ \E t \in TaskIds : syncCourse(t)
    \/ \E t \in TaskIds : syncCourseQuota(t)
    \/ \E t \in TaskIds : syncCourseFetched(t)
    \/ \E t \in TaskIds : syncCourseChecked(t)
    \/ \E t \in TaskIds : syncCourseSaved(t)
    \/ \E t \in TaskIds : syncCourseDone(t)
    \/ \E t \in TaskIds : saveCourse(t)
    \/ \E t \in TaskIds : saveCourseSaved(t)
    \/ \E t \in TaskIds : saveCourseSavedQuota(t)
    \/ \E t \in TaskIds : saveCourseDone(t)
    \/ \E t \in TaskIds : Serve(t)
    \/ \E t \in TaskIds : Fail(t)
    \/ \E t \in TaskIds : Return(t)

QuotaSpec == QuotaInit /\ [][QuotaNext]_vars


\* ------------------------------------------------- damaged stored content
\* the keys the operations read back
ReadKeys == {"adminCourses", STORAGE_KEY}

\* the text stored under a key is damaged (localStorage is shared by every
\* script of the origin): JSON.parse throws on it from then on
corruptItem ==
    /\ \E k \in ReadKeys :
          /\ slots[k].st # "bad"
          /\ slots' = [slots EXCEPT ![k] = BadSlot]
    /\ UNCHANGED <<remote, nextId, token, tasks>>
    /\ UNCHANGED <<pollerVars, otherVars>>

MalformedNext ==
    \/ corruptItem
    \/ \E t \in TaskIds : syncCourse(t)
    \/ \E t \in TaskIds : syncCourseFetched(t)
    \/ \E t \in TaskIds : syncCourseChecked(t)
    \/ \E t \in TaskIds : syncCourseSaved(t)
    \/ \E t \in TaskIds : syncCourseDone(t)
    \/ \E t \in TaskIds : deleteCourse(t)
    \/ \E t \in TaskIds : deleteCourseDone(t)
    \/ \E t \in TaskIds : getCourses(t)
    \/ \E t \in TaskIds : getCoursesDone(t)
    \/ \E t \in TaskIds : api_startAutoRefresh(t)
    \/ \E t \in TaskIds : forceSyncDone(t)
    \/ \E t \in TaskIds : api_autoRefreshTick(t)
    \/ \E t \in TaskIds : api_autoRefreshRefreshed(t)
    \/ \E t \in TaskIds : api_autoRefreshCounted(t)
    \/ \E t \in TaskIds : api_autoRefreshForced(t)
    \/ \E t \in TaskIds : Serve(t)
    \/ \E t \in TaskIds : Fail(t)
    \/ \E t \in TaskIds : Return(t)

MalformedSpec == QuotaInit /\ [][MalformedNext]_vars


\* ------------------------------------- the routes on complete course bodies
\* The six fields router.post requires.  A string field is a value or absent;
\* category is absent, a bare id string, or an embedded {id, name} pair.
RequiredFields ==
    {"title", "description", "instructor", "thumbnail", "category", "level"}

\* CourseSchema.level: enum
Levels == {"beginner", "intermediate", "advanced"}

NoCategory == [form |-> "undefined", id |-> Undef, name |-> Undef]
ById(id) == [form |-> "id", id |-> id, name |-> Undef]
Embedded(id, name) == [form |-> "pair", id |-> id, name |-> name]

\* the documents of the Category collection: id -> name
Categories == [id \in {"c1"} |-> "Web"]

\* what a client can send as category: the pair, its id, and the name
\* saveToMongoDB falls back to, which is no category's id
CategoryForms == {Embedded("c1", "Web"), ById("c1"), ById("web-development")}

FullBody(category, level) ==
    [title |-> "T", description |-> "D", instructor |-> "I",
     thumbnail |-> "U", category |-> category, level |-> level]

Without(body, f) ==
    [body EXCEPT ![f] = IF f = "category" THEN NoCategory ELSE Undef]

\* complete bodies, with a level of the enumeration or outside it, and the
\* same bodies with one required field left out
Bodies ==
    LET full == {FullBody(c, l) : c \in CategoryForms, l \in {"beginner", "expert"}}
    IN full \cup {Without(b, f) : b \in full, f \in RequiredFields}

\* `!title`, `!category`, ...
Missing(body, f) ==
    IF f = "category" THEN body.category.form = "undefined" ELSE body[f] = Undef

\* router.post: `categoryToSave`; a string is looked up in Category and used
\* as it is, found or not; an object gives `category._id || category`, and
\* the pair carries `id`, not `_id`
categoryToSave(category) == category

\* CourseSchema.category `set`: an object with an id is replaced by the id
categorySet(v) == IF v.form = "pair" THEN ById(v.id) ELSE v

\* populate('category', 'name icon') at its best: an id that is a
\* Category's comes back as the pair, any other value as it is stored
Populate(doc) ==
    IF doc.category.form = "id" /\ doc.category.id \in DOMAIN Categories
    THEN [doc EXCEPT !.category = Embedded(doc.category.id, Categories[doc.category.id])]
    ELSE doc

\* the document router.post builds from the body
CourseDocument(id, body) ==
    [_id |-> id, title |-> body.title, description |-> body.description,
     instructor |-> body.instructor, thumbnail |-> body.thumbnail,
     category |-> categorySet(categoryToSave(body.category)),
     level |-> body.level]

\* a create that stores whatever body it is given
PostCourseUnvalidated(store, nid, req) ==
    IF AuthStatus(req.token) # 200
    THEN Handled(store, nid, Response(AuthStatus(req.token), <<>>))
    ELSE Handled(Append(store, CourseDocument(nid, req.body[1])), nid + 1,
                 Response(200, <<CourseDocument(nid, req.body[1])>>))

\* router.post('/', auth, ...): 401, 403, 400 on a missing field, 500 when
\* newCourse.validate() rejects the level, else the saved document
PostCourse(store, nid, req) ==
    IF AuthStatus(req.token) # 200
    THEN Handled(store, nid, Response(AuthStatus(req.token), <<>>))
    ELSE IF RoleStatus(req.token) # 200
    THEN Handled(store, nid, Response(403, <<>>))
    ELSE IF \E f \in RequiredFields : Missing(req.body[1], f)
    THEN Handled(store, nid, Response(400, <<>>))
    ELSE IF req.body[1].level \notin Levels
    THEN Handled(store, nid, Response(500, <<>>))
    ELSE Handled(Append(store, CourseDocument(nid, req.body[1])), nid + 1,
                 Response(200, <<CourseDocument(nid, req.body[1])>>))

\* findByIdAndUpdate(id, {$set: req.body}, {new: true}): the fields the body
\* carries replace the document's; no validation is run
SetFields(old, body) ==
    [_id |-> old._id,
     title |-> IF body.title # Undef THEN body.title ELSE old.title,
     description |-> IF body.description # Undef THEN body.description
                     ELSE old.description,
     instructor |-> IF body.instructor # Undef THEN body.instructor
                    ELSE old.instructor,
     thumbnail |-> IF body.thumbnail # Undef THEN body.thumbnail
                   ELSE old.thumbnail,
     category |-> IF body.category.form # "undefined"
                  THEN categorySet(body.category) ELSE old.category,
     level |-> IF body.level # Undef THEN body.level ELSE old.level]

\* an update that inserts the document when the id is not in the store
PutCourseUpserts(store, nid, req) ==
    IF AuthStatus(req.token) # 200
    THEN Handled(store, nid, Response(AuthStatus(req.token), <<>>))
    ELSE IF RoleStatus(req.token) # 200
    THEN Handled(store, nid, Response(403, <<>>))
    ELSE IF RemoteIndex(store, req.id) = 0
    THEN Handled(Append(store, CourseDocument(req.id, req.body[1])), nid,
                 Response(200, <<CourseDocument(req.id, req.body[1])>>))
    ELSE LET i == RemoteIndex(store, req.id)
             u == SetFields(store[i], req.body[1])
         IN Handled([store EXCEPT ![i] = u], nid, Response(200, <<u>>))

\* router.put('/:id', auth, ...)
PutCourse(store, nid, req) ==
    IF AuthStatus(req.token) # 200
    THEN Handled(store, nid, Response(AuthStatus(req.token), <<>>))
    ELSE IF RoleStatus(req.token) # 200
    THEN Handled(store, nid, Response(403, <<>>))
    ELSE IF RemoteIndex(store, req.id) = 0
    THEN Handled(store, nid, Response(404, <<>>))
    ELSE LET i == RemoteIndex(store, req.id)
             u == SetFields(store[i], req.body[1])
         IN Handled([store EXCEPT ![i] = u], nid, Response(200, <<u>>))

\* router.get('/'): every document, populated
FindAll(store) == [i \in 1..Len(store) |-> Populate(store[i])]

\* the credentials a request can carry: none, one that no longer verifies,
\* a learner's and an admin's
Credentials == {NoToken, "expired", "user", "admin"}

\* a client sends a request to one of the routes
sendRequest(t) ==
    /\ Free(t)
    /\ \/ Call(t, "request", "wait", <<>>, NoId, ListRequest)
       \/ \E tok \in Credentials, b \in Bodies :
             Call(t, "request", "wait", <<>>, NoId, Request("POST", NoId, <<b>>, tok))
       \/ \E tok \in Credentials, b \in Bodies, id \in Ids :
             Call(t, "request", "wait", <<>>, id, Request("PUT", id, <<b>>, tok))
       \/ \E tok \in Credentials, id \in Ids :
             Call(t, "request", "wait", <<>>, id, Request("DELETE", id, <<>>, tok))
    /\ UNCHANGED <<remote, nextId, slots, token>>
    /\ UNCHANGED <<pollerVars, otherVars>>

\* the request of call t is waiting for the route of method m
Waiting(t, m) ==
    /\ tasks[t].req # <<>>
    /\ tasks[t].resp = <<>>
    /\ tasks[t].req[1].method = m

\* the route has handled the request: the store afterwards, and the answer
Respond(t, h) ==
    /\ h.nextId # nextId => nextId <= MaxId
    /\ remote' = h.remote
    /\ nextId' = h.nextId
    /\ tasks' = [tasks EXCEPT ![t].resp = <<h.resp>>]
    /\ UNCHANGED <<slots, token>>
    /\ UNCHANGED <<pollerVars, otherVars>>

router_get(t) ==
    /\ Waiting(t, "LIST")
    /\ Respond(t, Handled(remote, nextId, Response(200, FindAll(remote))))

router_post(t) ==
    /\ Waiting(t, "POST")
    /\ Respond(t, PostCourse(remote, nextId, tasks[t].req[1]))

router_put(t) ==
    /\ Waiting(t, "PUT")
    /\ Respond(t, PutCourse(remote, nextId, tasks[t].req[1]))

router_delete(t) ==
    /\ Waiting(t, "DELETE")
    /\ Respond(t, DeleteCourse(remote, nextId, tasks[t].req[1]))

\* the client has the answer
receive(t) ==
    /\ tasks[t].op = "request"
    /\ tasks[t].resp # <<>>
    /\ tasks' = [tasks EXCEPT ![t] = IdleTask]
    /\ UNCHANGED <<remote, nextId, slots, token>>
    /\ UNCHANGED <<pollerVars, otherVars>>

ServerNext ==
    \/ \E t \in TaskIds : sendRequest(t)
    \/ \E t \in TaskIds : router_get(t)
    \/ \E t \in TaskIds : router_post(t)
    \/ \E t \in TaskIds : router_put(t)
    \/ \E t \in TaskIds : router_delete(t)
    \/ \E t \in TaskIds : receive(t)

ServerSpec == Init /\ [][ServerNext]_vars


\* ------------------------------------------------------- the courses page
\* a module without a lessons array, or with up to MaxLessons lessons
ModuleSet ==
    {[has |-> FALSE, lessons |-> <<>>]}
        \cup {[has |-> TRUE, lessons |-> [i \in 1..n |-> "L"]] : n \in 0..MaxLessons}

\* course.modules: absent, or up to MaxModules modules
ModulesSet ==
    {NoModules}
        \cup {[has |-> TRUE, list |-> l] :
                l \in UNION {[1..n -> ModuleSet] : n \in 0..MaxModules}}

\* the collections the page can meet: none, or one course with its modules
PageStores ==
    {<<>>} \cup {<<[_id |-> 1, title |-> "T1", modules |-> m]>> : m \in ModulesSet}

\* The page opens on any store, and on a browser whose mirror is not set or
\* was written by an earlier pull.
PageInit ==
    /\ remote \in PageStores
    /\ nextId = 2
    /\ slots \in {[k \in Keys |-> NullSlot]} \cup {WriteAll(l) : l \in PageStores}
    /\ token = NoToken
    /\ tasks = [t \in TaskIds |-> IdleTask]
    /\ intervals = {}
    /\ nextTimer = 1
    /\ refreshInterval = NoTimer
    /\ refreshIntervalId = NoTimer
    /\ users = {}
    /\ backup = NullSlot
    /\ page = NoPage

PageNext ==
    \/ \E t \in TaskIds : loadCourses(t)
    \/ \E t \in TaskIds : loadCoursesDone(t)
    \/ \E t \in TaskIds : Serve(t)
    \/ \E t \in TaskIds : Fail(t)
    \/ \E t \in TaskIds : Return(t)

PageSpec == PageInit /\ [][PageNext]_vars


\* ------------------------------------------------- two saves in one browser
\* the server handles a request while up to MaxCreated records can be created
ServeNext(t) ==
    /\ tasks[t].req # <<>>
    /\ tasks[t].resp = <<>>
    /\ tasks[t].req[1].method = "POST" => nextId <= MaxCreated
    /\ LET h == Route(remote, nextId, tasks[t].req[1])
       IN /\ remote' = h.remote
          /\ nextId' = h.nextId
          /\ tasks' = [tasks EXCEPT ![t].resp = <<h.resp>>]
    /\ UNCHANGED <<slots, token>>
    /\ UNCHANGED <<pollerVars, otherVars>>

\* An admin is logged in; store and mirror are empty.  Two saveCourse calls of
\* the mongoSync-backed courseUtils can be suspended at the same time; no
\* pull runs.
ConcurrentSaveInit ==
    /\ remote = <<>>
    /\ nextId = 1
    /\ slots = [k \in Keys |-> NullSlot]
    /\ token = "admin"
    /\ tasks = [t \in InFlightIds |-> IdleTask]
    /\ intervals = {}
    /\ nextTimer = 1
    /\ refreshInterval = NoTimer
    /\ refreshIntervalId = NoTimer
    /\ users = {}
    /\ backup = NullSlot
    /\ page = NoPage

ConcurrentSaveNext ==
    \/ \E t \in InFlightIds : saveCourse(t)
    \/ \E t \in InFlightIds : saveCourseSaved(t)
    \/ \E t \in InFlightIds : saveCourseDone(t)
    \/ \E t \in InFlightIds : ServeNext(t)
    \/ \E t \in InFlightIds : Fail(t)
    \/ \E t \in InFlightIds : Return(t)

ConcurrentSaveSpec == ConcurrentSaveInit /\ [][ConcurrentSaveNext]_vars


\* ------------------------------------------ the courses page's polling
\* a cleanup that stops the interval and leaves isMounted true
effectCleanupKeepsFlag(p) == [effect |-> NoTimer, mounted |-> p.mounted]

\* the effect's cleanup function: `isMounted = false` (clearInterval is in
\* the actions)
effectCleanup(p) ==
    [effect |-> NoTimer, mounted |-> p.mounted \ {p.effect}]

\* React runs the effect, on mount and when location.search changes, after
\* the cleanup of the previous run: isMounted = true, loadCourses() is sent,
\* and the polling interval is set.  An effect is named by its interval's id.
pageEffect(t) ==
    /\ Free(t)
    /\ nextTimer <= MaxTimers
    /\ LET cleaned == IF page.effect # NoTimer THEN effectCleanup(page) ELSE page
           cleared == IF page.effect # NoTimer
                      THEN clearInterval(intervals, page.effect) ELSE intervals
       IN /\ page' = [effect |-> nextTimer,
                      mounted |-> cleaned.mounted \cup {nextTimer}]
          /\ intervals' = setInterval(cleared, nextTimer, "page")
    /\ nextTimer' = nextTimer + 1
    /\ Call(t, "pageLoad", "list", <<>>, nextTimer, ListRequest)
    /\ UNCHANGED <<remote, nextId, slots, token, users, backup,
                   refreshInterval, refreshIntervalId>>

\* the page is unmounted: React runs the cleanup
pageUnmount ==
    /\ page.effect # NoTimer
    /\ page' = effectCleanup(page)
    /\ intervals' = clearInterval(intervals, page.effect)
    /\ UNCHANGED <<remote, nextId, slots, token, tasks, users, backup,
                   nextTimer, refreshInterval, refreshIntervalId>>

\* the polling interval fires: loadCourses() returns at once when isMounted
\* is false, else sends the listing request
pagePoll(t) ==
    /\ Free(t)
    /\ \E i \in intervals :
          /\ i.owner = "page"
          /\ IF i.id \in page.mounted
             THEN Call(t, "pageLoad", "list", <<>>, i.id, ListRequest)
             ELSE UNCHANGED tasks
    /\ UNCHANGED <<remote, nextId, slots, token>>
    /\ UNCHANGED <<pollerVars, otherVars>>

\* ... the answer: the listing is stored and shown only under
\* `if (isMounted)`; otherwise loadCourses falls through to what the mirror
\* holds.  The call keeps its `response` until it is over.
pageLoadDone(t) ==
    /\ Answered(t, "pageLoad", "list")
    /\ IF tasks[t].id \in page.mounted
       THEN /\ slots' = loadCoursesSlots(slots, Resp(t))
            /\ tasks' = [tasks EXCEPT ![t].pc = "done", ![t].req = <<>>,
                            ![t].result = loadCoursesView(slots, Resp(t))]
       ELSE /\ UNCHANGED slots
            /\ tasks' = [tasks EXCEPT ![t].pc = "done", ![t].req = <<>>,
                            ![t].result = loadCoursesView(slots, Response(0, <<>>))]
    /\ UNCHANGED <<remote, nextId, token>>
    /\ UNCHANGED <<pollerVars, otherVars>>

PollingPageNext ==
    \/ \E t \in InFlightIds : pageEffect(t)
    \/ pageUnmount
    \/ \E t \in InFlightIds : pagePoll(t)
    \/ \E t \in InFlightIds : pageLoadDone(t)
    \/ \E t \in InFlightIds : Serve(t)
    \/ \E t \in InFlightIds : Fail(t)
    \/ \E t \in InFlightIds : Return(t)
    \/ OtherAdminSends("DELETE")

PollingPageSpec == PollerInit /\ [][PollingPageNext]_vars


\* --------------------------------------------- registration, AuthContext
\* const maxAttempts = 3
maxAttempts == 3

\* what the registration form submits; the route rejects an empty name
Emails == {"a@edutube.io", "b@edutube.io"}
Names == {"Ann", ""}

PingRequest == Request("PING", NoId, <<>>, NoToken)
RegisterRequest(b) == Request("REGISTER", NoId, <<b>>, NoToken)

\* router.post('/register'): 400 without the required fields, 409 when the
\* email is registered, else the user is saved and a token is answered
RegisterRoute(us, req) ==
    IF req.body[1].name = ""
    THEN [users |-> us, resp |-> Response(400, <<>>)]
    ELSE IF req.body[1].email \in us
    THEN [users |-> us, resp |-> Response(409, <<>>)]
    ELSE [users |-> us \cup {req.body[1].email}, resp |-> Response(200, <<>>)]

\* what the retry loop does with the answer to attempt n: a success breaks
\* the loop; the Error thrown for a 409 and a rejected fetch are both caught
\* by the loop's own catch, which rethrows only on the last attempt; any
\* other status waits and loops, and after the last attempt the check that
\* follows the loop throws
nextAttempt(n, resp) ==
    IF Ok(resp) THEN "return"
    ELSE IF resp.status \in {409, 0}
    THEN IF n = maxAttempts THEN "throw" ELSE "retry"
    ELSE IF n < maxAttempts THEN "retry"
    ELSE "throw"

\* register(name, email, password): the connectivity test is sent first
register(t) ==
    /\ Free(t)
    /\ \E e \in Emails, n \in Names :
          Call(t, "register", "ping", <<[email |-> e, name |-> n]>>, 0, PingRequest)
    /\ UNCHANGED <<remote, nextId, slots, token>>
    /\ UNCHANGED <<pollerVars, otherVars>>

\* ... whatever the connectivity test gave, the first attempt is sent
registerPinged(t) ==
    /\ Answered(t, "register", "ping")
    /\ tasks' = [tasks EXCEPT ![t].pc = "attempt", ![t].id = 1,
                    ![t].req = <<RegisterRequest(tasks[t].course[1])>>,
                    ![t].resp = <<>>]
    /\ UNCHANGED <<remote, nextId, slots, token>>
    /\ UNCHANGED <<pollerVars, otherVars>>

\* ... the answer to attempt tasks[t].id: the token is stored and register
\* returns, or the next attempt is sent, or register throws (USE_MOCK_AUTH is
\* false)
registerAnswered(t) ==
    /\ Answered(t, "register", "attempt")
    /\ LET next == nextAttempt(tasks[t].id, Resp(t))
       IN IF next = "return"
          THEN /\ token' = "user"
               /\ Finish(t, BoolResult(TRUE))
          ELSE IF next = "retry"
          THEN /\ tasks' = [tasks EXCEPT ![t].id = tasks[t].id + 1,
                               ![t].req = <<RegisterRequest(tasks[t].course[1])>>,
                               ![t].resp = <<>>]
               /\ UNCHANGED token
          ELSE /\ Finish(t, Thrown)
               /\ UNCHANGED token
    /\ UNCHANGED <<remote, nextId, slots>>
    /\ UNCHANGED <<pollerVars, otherVars>>

\* the server answers the connectivity test or handles the registration
userRoutes(t) ==
    /\ tasks[t].req # <<>>
    /\ tasks[t].resp = <<>>
    /\ tasks[t].req[1].method \in {"PING", "REGISTER"}
    /\ LET h == IF tasks[t].req[1].method = "PING"
                THEN [users |-> users, resp |-> Response(200, <<>>)]
                ELSE RegisterRoute(users, tasks[t].req[1])
       IN /\ users' = h.users
          /\ tasks' = [tasks EXCEPT ![t].resp = <<h.resp>>]
    /\ UNCHANGED <<remote, nextId, slots, token, backup, page>>
    /\ UNCHANGED pollerVars

RegisterNext ==
    \/ \E t \in TaskIds : register(t)
    \/ \E t \in TaskIds : registerPinged(t)
    \/ \E t \in TaskIds : registerAnswered(t)
    \/ \E t \in TaskIds : userRoutes(t)
    \/ \E t \in TaskIds : Fail(t)
    \/ \E t \in TaskIds : Return(t)
    \/ logout

RegisterSpec == Init /\ [][RegisterNext]_vars


\* ------------------------------- the scripts on the server host and the
\* backup file local-courses-backup.json
\* the store's titles
RECURSIVE TitlesOf(_)
TitlesOf(list) ==
    IF list = <<>> THEN {} ELSE {Head(list).title} \cup TitlesOf(Tail(list))

\* loadCoursesFromFile(): [] when the file is missing or does not parse
loadCoursesFromFile(file) == Parse(file)

\* the loop over localCourses: the entries whose title the map built from
\* Course.find({}) does not hold, in file order, each with `_id: undefined`
RECURSIVE coursesToAdd(_, _)
coursesToAdd(localCourses, existingTitles) ==
    IF localCourses = <<>> THEN <<>>
    ELSE IF Head(localCourses).title \notin existingTitles
         THEN <<[Head(localCourses) EXCEPT !._id = NoId]>>
                  \o coursesToAdd(Tail(localCourses), existingTitles)
         ELSE coursesToAdd(Tail(localCourses), existingTitles)

\* Course.insertMany(docs): each document gets the next _id
RECURSIVE insertMany(_, _, _)
insertMany(store, nid, docs) ==
    IF docs = <<>> THEN store
    ELSE insertMany(Append(store, [Head(docs) EXCEPT !._id = nid]),
                    nid + 1, Tail(docs))

\* a script is at step pc
ScriptAt(t, op, pc) == tasks[t].op = op /\ tasks[t].pc = pc

\* the script goes on to its next await, keeping `list` in a local variable
ScriptStep(t, op, pc, list) ==
    tasks' = [tasks EXCEPT ![t] =
                [IdleTask EXCEPT !.op = op, !.pc = pc, !.saved = list]]

\* mongo-sync.js, syncCoursesToMongoDB: reads the file; exits when it holds
\* no course, else connects
syncCoursesToMongoDB(t) ==
    /\ Free(t)
    /\ IF Len(loadCoursesFromFile(backup)) = 0
       THEN ScriptStep(t, "syncCoursesToMongoDB", "done", <<>>)
       ELSE ScriptStep(t, "syncCoursesToMongoDB", "find", loadCoursesFromFile(backup))
    /\ UNCHANGED <<remote, nextId, slots, token, otherVars>>
    /\ UNCHANGED pollerVars

\* ... Course.find({}) has answered: coursesToAdd is computed
syncCoursesFound(t) ==
    /\ ScriptAt(t, "syncCoursesToMongoDB", "find")
    /\ ScriptStep(t, "syncCoursesToMongoDB", "insert",
                  coursesToAdd(tasks[t].saved, TitlesOf(remote)))
    /\ UNCHANGED <<remote, nextId, slots, token, otherVars>>
    /\ UNCHANGED pollerVars

\* ... insertMany, when there is something to add
syncCoursesInserted(t) ==
    /\ ScriptAt(t, "syncCoursesToMongoDB", "insert")
    /\ nextId + Len(tasks[t].saved) - 1 <= MaxDocs
    /\ remote' = insertMany(remote, nextId, tasks[t].saved)
    /\ nextId' = nextId + Len(tasks[t].saved)
    /\ ScriptStep(t, "syncCoursesToMongoDB", "write", tasks[t].saved)
    /\ UNCHANGED <<slots, token, otherVars>>
    /\ UNCHANGED pollerVars

\* ... the second Course.find({}) is written to the file
syncCoursesWritten(t) ==
    /\ ScriptAt(t, "syncCoursesToMongoDB", "write")
    /\ backup' = Stored(remote)
    /\ ScriptStep(t, "syncCoursesToMongoDB", "done", tasks[t].saved)
    /\ UNCHANGED <<remote, nextId, slots, token, users, page>>
    /\ UNCHANGED pollerVars

\* sync-mongodb.js, ensureLocalSync(db), called at start, on every change
\* event and every 30 seconds: find({}).toArray() has answered
ensureLocalSync(t) ==
    /\ Free(t)
    /\ ScriptStep(t, "ensureLocalSync", "write", remote)
    /\ UNCHANGED <<remote, nextId, slots, token, otherVars>>
    /\ UNCHANGED pollerVars

\* ... the read throws: the catch logs and returns -1
ensureLocalSyncFails(t) ==
    /\ Free(t)
    /\ ScriptStep(t, "ensureLocalSync", "done", <<>>)
    /\ UNCHANGED <<remote, nextId, slots, token, otherVars>>
    /\ UNCHANGED pollerVars

\* the file after ensureLocalSync has read `courses`
ensureLocalSyncFile(file, courses) ==
    IF Len(courses) > 0 THEN Stored(courses) ELSE file

\* ... the file is written
ensureLocalSyncWritten(t) ==
    /\ ScriptAt(t, "ensureLocalSync", "write")
    /\ backup' = ensureLocalSyncFile(backup, tasks[t].saved)
    /\ ScriptStep(t, "ensureLocalSync", "done", tasks[t].saved)
    /\ UNCHANGED <<remote, nextId, slots, token, users, page>>
    /\ UNCHANGED pollerVars

\* the script's call is over
scriptEnds(t) ==
    /\ tasks[t].op \in {"syncCoursesToMongoDB", "ensureLocalSync"}
    /\ tasks[t].pc = "done"
    /\ tasks' = [tasks EXCEPT ![t] = IdleTask]
    /\ UNCHANGED <<remote, nextId, slots, token, otherVars>>
    /\ UNCHANGED pollerVars

\* The store holds up to two courses with different titles; the backup file
\* is missing or holds up to MaxBackup entries.
InitialStores ==
    { <<>>, <<NewCourse(1, [title |-> "T1", videoUrl |-> "V"])>>, TwoCourses }

BackupRecords == {Course(id, c) : id \in {NoId, 1}, c \in Contents}

BackupFiles ==
    {NullSlot} \cup
    {Stored(l) : l \in UNION {[1..n -> BackupRecords] : n \in 0..MaxBackup}}

BackupInit ==
    /\ remote \in InitialStores
    /\ nextId = Len(remote) + 1
    /\ slots = [k \in Keys |-> NullSlot]
    /\ token = NoToken
    /\ tasks = [t \in TaskIds |-> IdleTask]
    /\ intervals = {}
    /\ nextTimer = 1
    /\ refreshInterval = NoTimer
    /\ refreshIntervalId = NoTimer
    /\ users = {}
    /\ backup \in BackupFiles
    /\ page = NoPage

BackupNext ==
    \/ \E t \in TaskIds : syncCoursesToMongoDB(t)
    \/ \E t \in TaskIds : syncCoursesFound(t)
    \/ \E t \in TaskIds : syncCoursesInserted(t)
    \/ \E t \in TaskIds : syncCoursesWritten(t)
    \/ \E t \in TaskIds : ensureLocalSync(t)
    \/ \E t \in TaskIds : ensureLocalSyncFails(t)
    \/ \E t \in TaskIds : ensureLocalSyncWritten(t)
    \/ \E t \in TaskIds : scriptEnds(t)
    \/ OtherAdminSends("DELETE")

BackupSpec == BackupInit /\ [][BackupNext]_vars


\* ------------------------------------------------------ saves that fail
\* a save is answered with a success status and a body that carries no _id
\* (saveCourse tests `!savedCourse || !savedCourse._id`)
AnswersWithoutId(t) ==
    /\ tasks[t].req # <<>>
    /\ tasks[t].resp = <<>>
    /\ tasks[t].req[1].method \in {"POST", "PUT"}
    /\ tasks' = [tasks EXCEPT ![t].resp =
                    <<Response(200, <<[tasks[t].req[1].body[1] EXCEPT !._id = NoId]>>)>>]
    /\ UNCHANGED <<remote, nextId, slots, token>>
    /\ UNCHANGED <<pollerVars, otherVars>>

\* Store and mirror hold the same course; the session logs in and out, its
\* token can expire, and every request can succeed or fail.
SaveFailureNext ==
    \/ \E t \in TaskIds : saveCourse(t)
    \/ \E t \in TaskIds : saveCourseSaved(t)
    \/ \E t \in TaskIds : saveCourseDone(t)
    \/ \E t \in TaskIds : ServeNext(t)
    \/ \E t \in TaskIds : Fail(t)
    \/ \E t \in TaskIds : AnswersWithoutId(t)
    \/ \E t \in TaskIds : Return(t)
    \/ login
    \/ logout
    \/ tokenExpires

SaveFailureSpec == QuotaInit /\ [][SaveFailureNext]_vars


\* =================================================================== claims
\* lists and steps the claims speak about
InList(list, c) == \E i \in 1..Len(list) : list[i] = c
HasId(list, id) == \E i \in 1..Len(list) : list[i]._id = id
CountId(list, id) == Cardinality({i \in 1..Len(list) : list[i]._id = id})

PullOps == {"fetchMongoDBCourses", "forceSync", "getCourses", "loadCourses"}

\* task t is at the answer of a remote listing it mirrors: a pull entry point,
\* or one of syncCourse's two fetchMongoDBCourses calls
AtListing(t) ==
    /\ tasks[t].resp # <<>>
    /\ \/ tasks[t].op \in PullOps /\ tasks[t].pc = "list"
       \/ tasks[t].op = "syncCourse" /\ tasks[t].pc \in {"fetch1", "fetch2"}

\* ... and this step is the continuation that consumes the answer
PullStep(t) == AtListing(t) /\ tasks'[t].pc # tasks[t].pc

\* C1: after any pull whose remote list() succeeded, every mirror slot holds
\* exactly the listing that was returned (also when it is empty).
C1_MirrorIsListing ==
    [][\A t \in TaskIds :
          (PullStep(t) /\ Ok(Resp(t))) =>
              \A k \in Keys : Parse(slots'[k]) = Resp(t).body]_vars

\* C2: a record A held in some mirror slot and absent from the listing a
\* successful pull received is in no mirror slot after that pull.
C2_RemoteWinsConvergence ==
    [][\A t \in TaskIds : \A k \in Keys : \A i \in 1..Len(Parse(slots[k])) :
          (PullStep(t) /\ Ok(Resp(t)) /\ ~InList(Resp(t).body, Parse(slots[k])[i])) =>
              \A k2 \in Keys : ~InList(Parse(slots'[k2]), Parse(slots[k])[i])]_vars

\* C3: when a pull completes, succeeded or failed, the four mirror slots hold
\* identical contents.
C3_SlotsIdenticalAfterPull ==
    [][\A t \in TaskIds :
          PullStep(t) =>
              \A k1, k2 \in Keys : Parse(slots'[k1]) = Parse(slots'[k2])]_vars

\* C4: in every reachable state no mirror slot holds two records with the same
\* non-empty identity.
C4_UniqueIdentity ==
    \A k \in Keys : \A i, j \in 1..Len(Parse(slots[k])) :
        (i # j /\ Parse(slots[k])[i]._id = Parse(slots[k])[j]._id) =>
            Parse(slots[k])[i]._id = NoId

\* C4's case: syncCourse has just upserted a record whose identity the mirror
\* already held (it was replaced in place, ahead of a later record), and
\* every slot holds that identity once.
C4_Witness ==
    \E t \in TaskIds :
        /\ tasks[t].op = "syncCourse" /\ tasks[t].pc = "fetch1"
        /\ tasks[t].id # NoId
        /\ \A k \in Keys : /\ CountId(Parse(slots[k]), tasks[t].id) = 1
                           /\ Len(Parse(slots[k])) >= 2
                           /\ Parse(slots[k])[1] = tasks[t].course[1]

\* C5: a pull that failed (fetch rejected, or a non-success status) leaves
\* every mirror slot exactly as it was.
C5_FailedPullLeavesMirror ==
    [][\A t \in TaskIds : (PullStep(t) /\ ~Ok(Resp(t))) => slots' = slots]_vars

\* C6: a pull that failed does not throw and returns the previous local
\* snapshot, the content of the mirror, not an empty list.
C6_FailedPullReturnsSnapshot ==
    [][\A t \in TaskIds :
          (PullStep(t) /\ ~Ok(Resp(t))
             /\ tasks[t].op \in {"fetchMongoDBCourses", "getCourses"}) =>
              /\ tasks'[t].result.kind = "list"
              /\ \E k \in Keys : tasks'[t].result.val = Parse(slots[k])]_vars


\* saveCourse's create was answered with a record that carries an id
CreateAnswered(t) ==
    /\ Answered(t, "saveCourse", "save")
    /\ tasks[t].id = NoId
    /\ Ok(Resp(t))
    /\ Resp(t).body # <<>>

\* C7: pushing a record without id, when the remote create succeeds, puts a
\* record with the id the store answered into every mirror slot, and
\* saveCourse returns the record with that same non-empty id.
C7_PendingToSynced ==
    /\ [][\A t \in TaskIds :
            (CreateAnswered(t) /\ tasks'[t].pc # tasks[t].pc) =>
                /\ tasks'[t].pc = "verify"
                /\ Resp(t).body[1]._id # NoId
                /\ \A k \in Keys :
                      InList(Parse(slots'[k]),
                             [tasks[t].course[1] EXCEPT !._id = Resp(t).body[1]._id])]_vars
    /\ [](\A t \in TaskIds :
            (tasks[t].op = "saveCourse" /\ tasks[t].pc = "done"
               /\ tasks[t].id = NoId /\ tasks[t].saved # <<>>) =>
                /\ tasks[t].result.kind = "course"
                /\ tasks[t].result.val[1]._id = tasks[t].saved[1]._id
                /\ tasks[t].result.val[1]._id # NoId
                /\ tasks[t].result.val[1]._id < nextId)

\* C7's case: a saveCourse of a record without id has returned, and the
\* record it returned is in every mirror slot.
C7_Witness ==
    \E t \in TaskIds :
        /\ tasks[t].op = "saveCourse" /\ tasks[t].pc = "done"
        /\ tasks[t].id = NoId
        /\ tasks[t].result.kind = "course"
        /\ tasks[t].result.val[1]._id # NoId
        /\ \A k \in Keys : InList(Parse(slots[k]), tasks[t].result.val[1])

\* the mirror a completed push of a pending record must leave: a record with
\* the assigned id, and not the pending entry the push itself upserted
PushedAndNoPending(s, id, course) ==
    \A k \in Keys :
        /\ HasId(Parse(s[k]), id)
        /\ ~InList(Parse(s[k]), course)

\* C8: when a push of a record without id completes and the store assigned it
\* an id, the mirror holds a record with that id and no pending entry for the
\* course, whether the pulls inside the push succeeded or failed.
C8_PushLeavesAssignedRecord ==
    [][\A t \in TaskIds :
          /\ (Answered(t, "syncCourse", "fetch2") /\ tasks[t].id = NoId
                /\ tasks[t].saved # <<>> /\ tasks'[t].pc = "done") =>
                 PushedAndNoPending(slots', tasks[t].saved[1]._id, tasks[t].course[1])
          /\ (CreateAnswered(t) /\ tasks'[t].pc = "verify") =>
                 \A k \in Keys : HasId(Parse(slots'[k]), Resp(t).body[1]._id)]_vars

\* C9: an upsert of a record whose id the mirror already holds leaves exactly
\* one record with that id in every slot, equal to the upserted record
\* (replaced, not merged), for both local upserts: syncLocalStorage at the
\* start of syncCourse and saveCourse of the storage-only courseUtils.
C9_UpsertReplaces ==
    [][/\ \A t \in TaskIds :
            (tasks[t].op = "idle" /\ tasks'[t].op = "syncCourse"
               /\ tasks'[t].id # NoId
               /\ \A k \in Keys : HasId(Parse(slots[k]), tasks'[t].id)) =>
                \A k \in Keys :
                    /\ CountId(Parse(slots'[k]), tasks'[t].id) = 1
                    /\ InList(Parse(slots'[k]), tasks'[t].course[1])
       /\ \A id \in Ids, c \in Contents :
            (/\ id < nextId
             /\ HasId(storageGetCourses(slots), id)
             /\ slots' = storageSaveCourse(slots, Course(id, c))
             /\ tasks' = tasks /\ remote' = remote /\ token' = token) =>
                \A k \in Keys :
                    /\ CountId(Parse(slots'[k]), id) = 1
                    /\ InList(Parse(slots'[k]), Course(id, c))]_vars

\* C10: deleteCourse of an id the store no longer holds (the delete is
\* answered 404) raises no error and leaves no record with that id in any
\* mirror slot.
C10_IdempotentDelete ==
    [][\A t \in TaskIds :
          (Answered(t, "deleteCourse", "delete") /\ Resp(t).status = 404
             /\ tasks'[t].pc = "done") =>
              /\ tasks'[t].result.kind # "error"
              /\ \A k \in Keys : ~HasId(Parse(slots'[k]), tasks[t].id)]_vars

\* C11: deleteCourse removes the record from every mirror slot whether the
\* remote delete succeeded, failed on the network or was rejected by the
\* server; a remote failure does not keep or restore the record.
C11_OptimisticDelete ==
    [][\A t \in TaskIds :
          (Answered(t, "deleteCourse", "delete") /\ Resp(t).status # 404
             /\ tasks'[t].pc = "done") =>
              \A k \in Keys : ~HasId(Parse(slots'[k]), tasks[t].id)]_vars

\* C12: at most one reconciliation started by the poller's timer is in flight
\* at any instant: a tick that fires while the previous tick's pull is still
\* waiting for its answer is skipped.
C12_PollerNonOverlap ==
    \A t, u \in DOMAIN tasks :
        (/\ tasks[t].op = "autoRefreshTick"
         /\ tasks[u].op = "autoRefreshTick"
         /\ tasks[t].id = tasks[u].id) => t = u

\* every mirror slot holds the store's listing
MirrorIsRemote == \A k \in Keys : slots[k] = Stored(remote)

\* C18: if the poller stays running, the store stops changing and listing
\* requests stop failing, then eventually every mirror slot equals the
\* store's listing and stays so: a failed pull is retried by a later tick.
C18_PollerRetries ==
    (/\ <>[](refreshInterval # NoTimer)
     /\ <>[][remote' = remote]_vars
     /\ <>[][\A t \in DOMAIN tasks : ~Fail(t)]_vars)
        => <>[]MirrorIsRemote

\* C18's case: the poller was started once and runs, the pull startAutoRefresh
\* sent has failed, course 2 has been deleted from the store, and a tick has
\* brought the mirror to exactly the one remaining course.
C18_Witness ==
    /\ refreshInterval # NoTimer /\ nextTimer = 2
    /\ Len(remote) = 1 /\ remote[1]._id = 1
    /\ MirrorIsRemote
    /\ \E t \in DOMAIN tasks :
          /\ tasks[t].op = "fetchMongoDBCourses" /\ tasks[t].pc = "list"
          /\ tasks[t].resp # <<>> /\ ~Ok(Resp(t))

\* C13: after any sequence of start and stop calls at most one polling timer
\* of the poller is active.
C13_StartIdempotent ==
    Cardinality({i \in intervals : i.owner = "api"}) <= 1

\* C14: once stopAutoRefresh has returned, no timer of the poller is left to
\* fire, so no tick starts a pull before the next start, whatever starts came
\* before; a stop while nothing runs changes nothing.
C14_StopCancels ==
    [][api_stopAutoRefresh =>
          /\ ~ApiTimerActive'
          /\ (~ApiTimerActive => UNCHANGED vars)]_vars

\* C15: a tick pulls once; after that pull it sends one more remote call if
\* and only if the local record count differs from the count the pull
\* obtained, and no call at all otherwise; the extra call is the last.
C15_TickExtraPullOnMismatch ==
    [][\A t \in DOMAIN tasks :
          /\ (Answered(t, "api_autoRefreshTick", "refresh")
                /\ tasks'[t].pc # tasks[t].pc) =>
                 ((tasks'[t].req # <<>>) <=>
                    (Len(Parse(slots'["adminCourses"]))
                        # Len(fetchMongoDBCoursesReturn(Resp(t)))))
          /\ (Answered(t, "api_autoRefreshTick", "count")
                /\ tasks'[t].pc # tasks[t].pc) =>
                 tasks'[t].req = <<>>]_vars

\* syncCourse has upserted its record locally and the remote write it is
\* about to make, or has made, is not answered yet
PushUnconfirmed(t) ==
    /\ tasks[t].op = "syncCourse"
    /\ \/ tasks[t].pc \in {"fetch1", "check"}
       \/ tasks[t].pc = "save" /\ tasks[t].resp = <<>>

\* C16: a record a push has upserted into the mirror is not taken out of it
\* by any pull that completes before the push's remote write is answered.
C16_LocalEditSurvivesPulls ==
    [][\A t, u \in TaskIds :
          (/\ PushUnconfirmed(t)
           /\ PullStep(u)
           /\ \A k \in Keys : InList(Parse(slots[k]), tasks[t].course[1])) =>
              \A k \in Keys : InList(Parse(slots'[k]), tasks[t].course[1])]_vars

PushOps == {"saveCourse", "syncCourse"}

FailedFast(call) ==
    /\ call.pc = "done"
    /\ call.result = Thrown
    /\ call.req = <<>>

\* C20: with no stored credential every client write path (create, update,
\* delete) ends at once with an error for its caller and sends no request:
\* saveCourse and deleteCourse when they are called, syncCourse when it
\* comes to save the record the store does not hold.
C20_NoCredentialFailsFast ==
    [][\A t \in TaskIds :
          /\ (/\ tasks[t].op = "idle"
              /\ tasks'[t].op \in {"saveCourse", "deleteCourse"}
              /\ token = NoToken) => FailedFast(tasks'[t])
          /\ (/\ Answered(t, "syncCourse", "check")
              /\ ~doesExistInMongoDB(Resp(t))
              /\ token = NoToken
              /\ tasks'[t].pc # tasks[t].pc) => FailedFast(tasks'[t])]_vars

\* handleDeleteCourse has removed the record locally and its remote delete
\* has been answered with success
DeleteSucceeded(u) ==
    /\ tasks[u].op = "handleDeleteCourse"
    /\ tasks[u].resp # <<>>
    /\ Ok(Resp(u))

\* C17: once a delete has removed the record from the mirror and the remote
\* delete has succeeded, no step, a pull sent around the deletion and
\* answered late included, puts a record with that id back into a slot.
C17_DeletedIsTerminal ==
    [][\A u \in DOMAIN tasks :
          (/\ DeleteSucceeded(u)
           /\ \A k \in Keys : ~HasId(Parse(slots[k]), tasks[u].id)) =>
              \A k \in Keys : ~HasId(Parse(slots'[k]), tasks[u].id)]_vars

\* the statuses a rejected write is answered with: ValidationFailed,
\* Unauthorized, NotFound
RejectStatuses == {400, 401, 404}

\* C21: a push whose remote write was rejected (400, 401, or 404 on update)
\* ends with an error or a failure result, never with a success result, and
\* sends no further write request.
C21_RejectedPushReported ==
    \A t \in TaskIds :
        (/\ tasks[t].op \in PushOps
         /\ tasks[t].write # <<>>
         /\ tasks[t].write[1] \in RejectStatuses) =>
            /\ tasks[t].pc = "done" =>
                  tasks[t].result \in {Thrown, BoolResult(FALSE)}
            /\ tasks[t].req # <<>> =>
                  tasks[t].req[1].method \notin {"POST", "PUT"}

\* C22: a mirror write during which one setItem fails on a full storage
\* leaves every slot with the content it had before the write: no slot holds
\* the new collection while another still holds the old one.
C22_WriteAllAtomic ==
    [][\A t \in DOMAIN tasks :
          (\/ fetchMongoDBCoursesQuota(t)
           \/ syncCourseQuota(t)
           \/ saveCourseSavedQuota(t)) => slots' = slots]_vars

\* the mirror with every damaged slot taken for an absent one
Emptied(s) == [k \in Keys |-> IF s[k].st = "bad" THEN NullSlot ELSE s[k]]

SameContent(s1, s2) == \A k \in Keys : Parse(s1[k]) = Parse(s2[k])

\* C23: every operation that reads the mirror takes a slot whose text does
\* not parse for an empty one: the upsert of syncCourse, the removal of
\* deleteCourse and the read of getCourses do what they do on the emptied
\* mirror, and neither they nor the poller's tick end with an error.
C23_MalformedIsEmpty ==
    [][\A t \in DOMAIN tasks :
          /\ (tasks[t].op = "idle" /\ tasks'[t].op = "syncCourse") =>
                /\ tasks'[t].result # Thrown
                /\ slots' = syncLocalStorage(Emptied(slots), tasks'[t].course[1])
          /\ (Answered(t, "deleteCourse", "delete") /\ Ok(Resp(t))
                /\ tasks'[t].pc = "done") =>
                /\ tasks'[t].result # Thrown
                /\ SameContent(slots', deleteCourseSlots(Emptied(slots), tasks[t].id))
          /\ (Answered(t, "getCourses", "list") /\ tasks'[t].pc = "done") =>
                tasks'[t].result
                    = ListResult(getCoursesReturn(Emptied(slots), Resp(t)))
          /\ (tasks[t].op = "api_autoRefreshTick"
                /\ tasks'[t].pc # tasks[t].pc) =>
                tasks'[t].result # Thrown]_vars

\* the request of call t, waiting for the route of method m, is answered by
\* this step
Served(t, m) == Waiting(t, m) /\ tasks'[t].resp # <<>>

\* the answer this step gives to call t
Answer(t) == tasks'[t].resp[1]

StoreUnchanged == remote' = remote /\ nextId' = nextId

\* C24: every document in the store holds its category as the embedded
\* {id, name} pair, and every record a route answers with (the listing, the
\* created and the updated record) carries the pair, never a bare id.
C24_CategoryEmbedded ==
    /\ \A i \in 1..Len(remote) : remote[i].category.form = "pair"
    /\ \A t \in DOMAIN tasks :
          (tasks[t].op = "request" /\ tasks[t].resp # <<>> /\ Ok(Resp(t))) =>
              \A i \in 1..Len(Resp(t).body) :
                  Resp(t).body[i].category.form = "pair"

AllPresent(body) == \A f \in RequiredFields : ~Missing(body, f)

\* the POST of call t is answered with the created record: it carries the
\* id the store assigns next, which no record had, and is appended
Created(t) ==
    /\ Answer(t).status = 200
    /\ Answer(t).body # <<>>
    /\ Answer(t).body[1]._id = nextId
    /\ ~HasId(remote, nextId)
    /\ remote' = Append(remote, Answer(t).body[1])
    /\ nextId' = nextId + 1

NotAuthenticated(tok) == tok \in {NoToken, "expired"}

\* C27: every create, update or delete request that carries no credential
\* or an invalid one is answered 401 and leaves the store unchanged.
C27_UnauthenticatedWriteRejected ==
    [][\A t \in DOMAIN tasks : \A m \in {"POST", "PUT", "DELETE"} :
          (Served(t, m) /\ NotAuthenticated(tasks[t].req[1].token)) =>
              Answer(t).status = 401 /\ StoreUnchanged]_vars

\* C27's case: a DELETE of a record the store holds, sent with a credential
\* that no longer verifies, has been answered 401 and the record is there.
C27_Witness ==
    \E t \in DOMAIN tasks :
        /\ tasks[t].op = "request" /\ tasks[t].resp # <<>>
        /\ tasks[t].req[1].method = "DELETE"
        /\ tasks[t].req[1].token = "expired"
        /\ Resp(t).status = 401
        /\ HasId(remote, tasks[t].req[1].id)

\* the sum of the lengths of the record's modules' lesson arrays
LessonCount(course) ==
    IF ModulesOf(course).has THEN reduceLessons(ModulesOf(course).list) ELSE 0

\* the records loadCourses projects: the listing when it has courses, else
\* what the first mirror slot that is set holds
ProjectedRecords(t) ==
    IF Ok(Resp(t)) /\ Len(Resp(t).body) > 0 THEN Resp(t).body
    ELSE IF \E i \in 1..Len(possibleKeys) : slots[possibleKeys[i]].st # "null"
    THEN Parse(slots[possibleKeys[
            CHOOSE i \in 1..Len(possibleKeys) :
                /\ slots[possibleKeys[i]].st # "null"
                /\ \A j \in 1..(i - 1) : slots[possibleKeys[j]].st = "null"]])
    ELSE <<>>

\* C28: on both paths of loadCourses, from the remote listing and from the
\* mirror, every projected record shows as lesson count the sum of the
\* lengths of its modules' lesson arrays, 0 when it has no modules.
C28_LessonCountIsSum ==
    [][\A t \in DOMAIN tasks :
          (Answered(t, "loadCourses", "list") /\ tasks'[t].pc = "done"
             /\ tasks'[t].result.kind = "view") =>
              /\ Len(tasks'[t].result.val) = Len(ProjectedRecords(t))
              /\ \A i \in 1..Len(ProjectedRecords(t)) :
                    /\ tasks'[t].result.val[i].id = ProjectedRecords(t)[i]._id
                    /\ tasks'[t].result.val[i].lessonsCount
                          = LessonCount(ProjectedRecords(t)[i])]_vars

\* C29: every listing request a client sends carries the no-store
\* directives, whichever function sends it.
C29_ListIsNoStore ==
    \A t \in DOMAIN tasks :
        (tasks[t].req # <<>> /\ tasks[t].req[1].method = "LIST") =>
            tasks[t].req[1].cache = "no-store"

\* the continuation of a pull of the poller (the initial pull of
\* startAutoRefresh or the pull of a tick) consumes the answer of task t
PollerPullStep(t) ==
    /\ tasks[t].op \in {"fetchMongoDBCourses", "autoRefreshTick"}
    /\ tasks[t].pc = "list"
    /\ tasks[t].resp # <<>>
    /\ tasks'[t].pc # "list"

\* Under PollerNext the store only loses records, so of two listings the one
\* with more records was observed earlier.
OlderListing(l1, l2) == Len(l1) > Len(l2)

\* C30: with two pulls in flight whose answers arrive in the opposite order
\* to the store states they observed, the mirror does not regress: a slot
\* that holds a listing is never overwritten by the answer that carries an
\* older listing.
C30_MirrorDoesNotRegress ==
    [][\A t \in DOMAIN tasks : \A k \in Keys :
          (/\ PollerPullStep(t)
           /\ Ok(Resp(t))
           /\ slots[k].st = "ok"
           /\ OlderListing(Resp(t).body, slots[k].val)) =>
                slots'[k] = slots[k]]_vars

\* C31: the upsert of a record without an id appends it and replaces no
\* record the mirror holds, so that two distinct pending records upserted one
\* after the other are both in the mirror; for both local upserts,
\* syncLocalStorage at the start of syncCourse and saveCourse of the
\* storage-only courseUtils.
C31_PendingUpsertAppends ==
    [][/\ \A t \in TaskIds :
            (tasks[t].op = "idle" /\ tasks'[t].op = "syncCourse"
               /\ tasks'[t].id = NoId) =>
                \A k \in {"adminCourses", STORAGE_KEY} :
                    ~InList(Parse(slots[k]), tasks'[t].course[1]) =>
                        Parse(slots'[k]) =
                            Append(Parse(slots[k]), tasks'[t].course[1])
       /\ \A c \in Contents :
            (/\ slots' = storageSaveCourse(slots, Course(NoId, c))
             /\ ~InList(storageGetCourses(slots), Course(NoId, c))
             /\ tasks' = tasks /\ remote' = remote /\ token' = token) =>
                \A k \in Keys :
                    Parse(slots'[k]) =
                        Append(storageGetCourses(slots), Course(NoId, c))]_vars

\* C32: after the local upsert of a push (syncLocalStorage, the first step of
\* syncCourse) the four mirror slots hold identical contents, whatever they
\* held before, also when adminCourses and edutube_courses differed.  (The
\* upsert has completed when syncCourse has sent its first listing request.)
C32_SlotsIdenticalAfterUpsert ==
    [][\A t \in DOMAIN tasks :
          (/\ tasks[t].op = "idle"
           /\ tasks'[t].op = "syncCourse" /\ tasks'[t].pc = "fetch1") =>
              \A k1, k2 \in Keys : Parse(slots'[k1]) = Parse(slots'[k2])]_vars

\* saveCourse call t created a new record and has made its local upsert
UpsertedNew(t) ==
    /\ tasks[t].op = "saveCourse"
    /\ tasks[t].id = NoId
    /\ tasks[t].pc \in {"verify", "done"}
    /\ tasks[t].saved # <<>>

\* C33: two saveCourse calls for two distinct new records that overlap in one
\* browser context and both succeed leave both records in every mirror slot,
\* each exactly once, when no pull runs in between: when call u makes its
\* upsert while call t, which has made its own, has not returned, the slots
\* hold u's record once and still hold the record of t once.
C33_ConcurrentSavesKept ==
    [][\A t, u \in DOMAIN tasks :
          (/\ t # u
           /\ UpsertedNew(t)
           /\ Answered(u, "saveCourse", "save")
           /\ tasks[u].id = NoId
           /\ tasks'[u].pc = "verify") =>
              \A k \in Keys :
                  /\ CountId(Parse(slots'[k]), tasks[t].saved[1]._id) = 1
                  /\ CountId(Parse(slots'[k]), Resp(u).body[1]._id) = 1
                  /\ InList(Parse(slots'[k]),
                            updatedCourse(tasks[u].course[1], Resp(u).body[1]))]_vars

\* C33's case: both calls were suspended at once, the call that started
\* second had its record created first, and both upserts have been made.
C33_Witness ==
    /\ UpsertedNew(1) /\ UpsertedNew(2)
    /\ tasks[1].pc = "verify" /\ tasks[2].pc = "verify"
    /\ tasks[1].saved[1]._id = 2 /\ tasks[2].saved[1]._id = 1
    /\ tasks[1].course # tasks[2].course
    /\ \A k \in Keys : Len(Parse(slots[k])) = 2

\* the answer to the remote write of a save is not a saved record
NotSaved(resp) ==
    \/ ~Ok(resp)
    \/ resp.body = <<>>
    \/ resp.body[1]._id = NoId

\* C34: when the remote write of saveCourse fails (no credential, network
\* error, non-success status) or returns a record without an id, saveCourse
\* raises an error to its caller and leaves every mirror slot unchanged.
C34_FailedSaveThrows ==
    [][\A t \in DOMAIN tasks :
          /\ (/\ tasks[t].op = "idle" /\ tasks'[t].op = "saveCourse"
              /\ token = NoToken) =>
                  /\ tasks'[t].pc = "done" /\ tasks'[t].result = Thrown
                  /\ slots' = slots
          /\ (/\ Answered(t, "saveCourse", "save") /\ NotSaved(Resp(t))
              /\ tasks'[t].pc # "save") =>
                  /\ tasks'[t].pc = "done" /\ tasks'[t].result = Thrown
                  /\ slots' = slots]_vars

\* C34's case: the store answered a save with a success status and a record
\* without id; saveCourse has thrown and the mirror still holds its course.
C34_Witness ==
    /\ \E t \in DOMAIN tasks :
          /\ tasks[t].op = "saveCourse" /\ tasks[t].pc = "done"
          /\ tasks[t].result = Thrown
          /\ tasks[t].write = <<200>>
    /\ slots = WriteAll(OneCourse)

\* C35: the store is modified by POST, PUT or DELETE on /courses only when
\* the request carries a valid token whose role is admin; a request with a
\* valid token of another role is answered 403 and leaves the store
\* unchanged.
C35_OnlyAdminModifies ==
    [][/\ ~StoreUnchanged =>
            \E t \in DOMAIN tasks : \E m \in {"POST", "PUT", "DELETE"} :
                Served(t, m) /\ tasks[t].req[1].token = "admin"
       /\ \A t \in DOMAIN tasks : \A m \in {"POST", "PUT", "DELETE"} :
            (Served(t, m) /\ tasks[t].req[1].token = "user") =>
                Answer(t).status = 403 /\ StoreUnchanged]_vars

\* C35's case: a PUT for a record the store holds, sent with a learner's
\* valid token, has been answered 403.
C35_Witness ==
    \E t \in DOMAIN tasks :
        /\ tasks[t].op = "request" /\ tasks[t].resp # <<>>
        /\ tasks[t].req[1].method = "PUT"
        /\ tasks[t].req[1].token = "user"
        /\ Resp(t).status = 403
        /\ HasId(remote, tasks[t].req[1].id)

\* this step consumes the answer to a registration attempt of call t
AttemptStep(t) ==
    /\ Answered(t, "register", "attempt")
    /\ tasks'[t] # tasks[t]

\* C36: in register a 409 answer ends the attempt loop at once (no further
\* registration request is sent), none is sent after the first success, and
\* at most three are sent.
C36_RegisterStopsOnConflict ==
    [][\A t \in DOMAIN tasks :
          AttemptStep(t) =>
              /\ (Resp(t).status = 409 \/ Ok(Resp(t))) => tasks'[t].req = <<>>
              /\ tasks'[t].id <= maxAttempts]_vars

\* no two courses of the list have the same title
UniqueTitles(list) ==
    \A i, j \in 1..Len(list) : list[i].title = list[j].title => i = j

\* C37: the backup-to-store script inserts a backup course only when no
\* store course has its title, and when the store held no two courses with
\* the same title before the insertion it holds none after it, whatever the
\* backup file holds.
C37_SyncKeepsTitlesUnique ==
    [][\A t \in DOMAIN tasks :
          (ScriptAt(t, "syncCoursesToMongoDB", "insert") /\ tasks'[t].pc = "write") =>
              /\ \A i \in 1..Len(tasks[t].saved) :
                    tasks[t].saved[i].title \notin TitlesOf(remote)
              /\ UniqueTitles(remote) => UniqueTitles(remote')]_vars

\* C38: after each ensureLocalSync run that read the store, the backup file
\* holds exactly the collection it read, also when that is empty, so that a
\* course deleted from the store is not in the file afterwards.
C38_BackupEqualsStore ==
    [][\A t \in DOMAIN tasks :
          (ScriptAt(t, "ensureLocalSync", "write") /\ tasks'[t].pc = "done") =>
              loadCoursesFromFile(backup') = tasks[t].saved]_vars

\* the polling intervals of the courses page that are active
PageIntervals(set) == {i \in set : i.owner = "page"}

\* C39: across mounts, search-parameter changes and unmounts the courses
\* page has at most one polling interval active, and a load that is still in
\* flight when its effect has been cleaned up writes nothing to the mirror.
C39_OnePollerNoStaleWrite ==
    [][/\ Cardinality(PageIntervals(intervals')) <= 1
       /\ \A t \in DOMAIN tasks :
            (/\ Answered(t, "pageLoad", "list")
             /\ tasks'[t].pc = "done"
             /\ tasks[t].id # page.effect) => slots' = slots]_vars

\* C39's case: the page was mounted and its effect has run twice; the load
\* of the first run was answered with courses after that run was cleaned
\* up and has ended, the mirror was never written, and one interval is
\* active.
C39_Witness ==
    /\ page.effect = 2
    /\ Cardinality(PageIntervals(intervals)) = 1
    /\ \A k \in Keys : slots[k] = NullSlot
    /\ \E t \in DOMAIN tasks :
          /\ tasks[t].op = "pageLoad" /\ tasks[t].pc = "done"
          /\ tasks[t].id = 1
          /\ Ok(Resp(t)) /\ Len(Resp(t).body) > 0
          /\ tasks[t].result = MockResult

====
